---------------------------- MODULE Spec2Model ----------------------------
(***************************************************************************)
(* Model of the CSV ingestion and aggregation pipeline of the AI readiness  *)
(* dashboard (src/components/AIReadinessInteractive.jsx).                   *)
(*                                                                         *)
(* A JavaScript string is a sequence of one-character strings, so that     *)
(* splitting, trimming, quoting and keyword matching are computed rather    *)
(* than assumed.  A JavaScript object is a sequence of <<key, value>> pairs *)
(* in property enumeration order.                                           *)
(***************************************************************************)
EXTENDS Integers, Sequences, FiniteSets, TLC

VARIABLES
  rows, headers,                       \* useState: parsed dataset
  siteKey, fileCountKey, fileSizeKey,  \* useState: header role map
  lastModKey, fileTypeKey, fileNameKey, permKey,
  fileTypeFilter, riskFilter, categoryFilter,   \* useState: row filters
  filter, sort,                        \* useState: table search/sharing filter and sort
  stalePeriod,                         \* useState: period of the stale files view
  gravityMetric, expandedSite,         \* useState: metric of the top sites chart, site with open details
  download,                            \* text handed to the browser by the latest handler, or null
  posted,                              \* messages the latest handler posted to window.parent, undelivered
  fn, arg, res, pc                     \* pure-function harness: function, input, result, "call"/"done"

vars == <<rows, headers, siteKey, fileCountKey, fileSizeKey, lastModKey,
          fileTypeKey, fileNameKey, permKey, fileTypeFilter, riskFilter,
          categoryFilter, filter, sort, stalePeriod, gravityMetric, expandedSite,
          download, posted, fn, arg, res, pc>>

(***************************************************************************)
(* Bounds of the model.                                                     *)
(***************************************************************************)
MaxLen == 5        \* longest CSV text handed to parseCSV in SpecParse
MaxHeaders == 3    \* longest header sequence handed to updateColumnKeys in SpecColumns
MaxPieces == 3     \* most pieces of TextPieces joined into a text in SpecClassify
MaxRows == 2       \* most data lines of a CSV text loaded into the dashboard
MaxLoads == 2                        \* loads of a sequence of SpecLoads
MaxTableRows == 3                    \* data lines of a text of TableTexts
TopN == 10                           \* entries of the top sites chart
MaxTopSites == 12                    \* sites of a text of TopTexts
MaxTypeRows == 14                    \* rows of a text of TypeTexts
MaxOrderRows == 3                    \* data rows of a text of OrderTexts
MaxSharingRows == 2                  \* data rows of a text of SharingTexts
MaxUploads == 2                      \* files chosen in a run of SpecUpload
MaxStaleRows == 3                    \* data lines of a text of StaleTexts
MaxExtPieces == 3  \* most pieces of ExtPieces joined into a file name in SpecExtension

(***************************************************************************)
(* JavaScript values.                                                       *)
(***************************************************************************)
Null == <<"<null>">>            \* null: no string has a multi-character element
Undefined == <<"<undefined>">>  \* undefined
Q == "\""
NL == "\n"
CR == "\r"
COMMA == ","
SP == " "

UpperChars == <<"A","B","C","D","E","F","G","H","I","J","K","L","M","N","O","P","Q","R","S","T","U","V","W","X","Y","Z">>
LowerChars == <<"a","b","c","d","e","f","g","h","i","j","k","l","m","n","o","p","q","r","s","t","u","v","w","x","y","z">>
DigitChars == <<"0","1","2","3","4","5","6","7","8","9">>

Range(s) == {s[i] : i \in 1..Len(s)}

\* String.prototype.toLowerCase, one character
LowerOf == [c \in Range(UpperChars) |-> LowerChars[CHOOSE i \in 1..Len(UpperChars) : UpperChars[i] = c]]
lowerChar(c) == IF c \in DOMAIN LowerOf THEN LowerOf[c] ELSE c

toLowerCase(s) == [i \in 1..Len(s) |-> lowerChar(s[i])] \o <<>>

\* white space and line terminators, as String.prototype.trim strips them
isSpace(c) == c \in {SP, "\t", CR, NL, "\f"}

\* the regular expression class \w
WordChars == Range(UpperChars) \cup Range(LowerChars) \cup Range(DigitChars) \cup {"_"}
isWordChar(c) == c \in WordChars

trim(s) ==
  IF \A i \in 1..Len(s) : isSpace(s[i]) THEN <<>>
  ELSE LET a == CHOOSE i \in 1..Len(s) : ~isSpace(s[i]) /\ \A j \in 1..(i-1) : isSpace(s[j])
           b == CHOOSE i \in 1..Len(s) : ~isSpace(s[i]) /\ \A j \in (i+1)..Len(s) : isSpace(s[j])
       IN SubSeq(s, a, b)

\* sub occurs in s starting at position i (1-based)
matchAt(s, sub, i) ==
  /\ i >= 1
  /\ i + Len(sub) - 1 <= Len(s)
  /\ \A k \in 1..Len(sub) : s[i + k - 1] = sub[k]

\* String.prototype.includes
includes(s, sub) == \E i \in 1..(Len(s) + 1) : matchAt(s, sub, i)

(***************************************************************************)
(* Row classifiers                                                          *)
(***************************************************************************)

\* the regular expression assertion \b before position i (1-based; i may be
\* Len(t) + 1): exactly one of the characters around it is a word character
wordBoundary(t, i) ==
  (i > 1 /\ isWordChar(t[i - 1])) # (i <= Len(t) /\ isWordChar(t[i]))

\* /\b(alt1|alt2|...)\b/.test(t)
testWords(t, alts) ==
  \E i \in 1..Len(t) :
    /\ wordBoundary(t, i)
    /\ \E a \in alts : matchAt(t, a, i) /\ wordBoundary(t, i + Len(a))

\* a variant that looks for everyone before the external classes
classifySharingEveryoneFirst(rowText) ==
  LET t == toLowerCase(rowText)
  IN IF t = <<>> THEN [level |-> <<"O","n","l","y"," ","O","r","g">>, rank |-> 1]
     ELSE IF testWords(t, { <<"e","v","e","r","y","o","n","e">> })
     THEN [level |-> <<"E","v","e","r","y","o","n","e">>, rank |-> 2]
     ELSE IF testWords(t, { <<"a","n","y","o","n","e">>, <<"a","n","y","o","n","e","w","i","t","h","l","i","n","k">>, <<"a","n","y","o","n","e"," ","w","i","t","h"," ","t","h","e"," ","l","i","n","k">>,
                            <<"a","n","o","n","y","m","o","u","s">>, <<"p","u","b","l","i","c">> })
     THEN [level |-> <<"E","x","t","e","r","n","a","l"," ","(","A","n","o","n","y","m","o","u","s",")">>, rank |-> 4]
     ELSE IF testWords(t, { <<"g","u","e","s","t">>, <<"e","x","t","e","r","n","a","l">>, <<"n","e","w"," ","e","x","t","e","r","n","a","l">>, <<"n","e","w"," ","&"," ","e","x","i","s","t","i","n","g">>,
                            <<"n","e","w"," ","a","n","d"," ","e","x","i","s","t","i","n","g">>, <<"n","e","w","e","x","i","s","t","i","n","g">> })
     THEN [level |-> <<"E","x","t","e","r","n","a","l"," ","(","N","e","w"," ","&"," ","E","x","i","s","t","i","n","g",")">>, rank |-> 3]
     ELSE [level |-> <<"O","n","l","y"," ","O","r","g">>, rank |-> 1]
classifySharing(rowText) ==
  LET t == toLowerCase(rowText)
  IN IF t = <<>> THEN [level |-> <<"O","n","l","y"," ","O","r","g">>, rank |-> 1]
     ELSE IF testWords(t, { <<"a","n","y","o","n","e">>, <<"a","n","y","o","n","e","w","i","t","h","l","i","n","k">>, <<"a","n","y","o","n","e"," ","w","i","t","h"," ","t","h","e"," ","l","i","n","k">>,
                            <<"a","n","o","n","y","m","o","u","s">>, <<"p","u","b","l","i","c">> })
     THEN [level |-> <<"E","x","t","e","r","n","a","l"," ","(","A","n","o","n","y","m","o","u","s",")">>, rank |-> 4]
     ELSE IF testWords(t, { <<"g","u","e","s","t">>, <<"e","x","t","e","r","n","a","l">>, <<"n","e","w"," ","e","x","t","e","r","n","a","l">>, <<"n","e","w"," ","&"," ","e","x","i","s","t","i","n","g">>,
                            <<"n","e","w"," ","a","n","d"," ","e","x","i","s","t","i","n","g">>, <<"n","e","w","e","x","i","s","t","i","n","g">> })
     THEN [level |-> <<"E","x","t","e","r","n","a","l"," ","(","N","e","w"," ","&"," ","E","x","i","s","t","i","n","g",")">>, rank |-> 3]
     ELSE IF testWords(t, { <<"e","v","e","r","y","o","n","e">> })
     THEN [level |-> <<"E","v","e","r","y","o","n","e">>, rank |-> 2]
     ELSE [level |-> <<"O","n","l","y"," ","O","r","g">>, rank |-> 1]

\* a variant that tests the Low group before the Medium group
getRiskProfileLowFirst(text) ==
  LET t == toLowerCase(IF text \in {Null, Undefined} THEN <<>> ELSE text)
  IN IF testWords(t, { <<"e","v","e","r","y","o","n","e">> }) \/ includes(t, <<"e","v","e","r","y","o","n","e"," ","e","x","c","e","p","t"," ","e","x","t","e","r","n","a","l"," ","u","s","e","r","s">>)
     THEN <<"C","r","i","t","i","c","a","l">>
     ELSE IF \/ includes(t, <<"o","w","n","e","r">>)
             \/ includes(t, <<"m","e","m","b","e","r">>)
             \/ includes(t, <<"a","d","m","i","n","i","s","t","r","a","t","o","r">>)
             \/ includes(t, <<"p","r","o","j","e","c","t"," ","m","a","n","a","g","e","r">>)
             \/ includes(t, <<"t","e","a","m"," ","l","e","a","d">>)
             \/ includes(t, <<"r","e","s","o","u","r","c","e"," ","m","a","n","a","g","e","r">>)
     THEN <<"L","o","w">>
     ELSE IF \/ includes(t, <<"v","i","s","i","t","o","r">>)
             \/ includes(t, <<"e","x","c","e","l"," ","s","e","r","v","i","c","e","s"," ","v","i","e","w","e","r","s">>)
             \/ includes(t, <<"p","o","r","t","f","o","l","i","o"," ","v","i","e","w","e","r","s">>)
     THEN <<"M","e","d","i","u","m">>
     ELSE <<"U","n","k","n","o","w","n">>
getRiskProfile(text) ==
  LET t == toLowerCase(IF text \in {Null, Undefined} THEN <<>> ELSE text)
  IN IF testWords(t, { <<"e","v","e","r","y","o","n","e">> }) \/ includes(t, <<"e","v","e","r","y","o","n","e"," ","e","x","c","e","p","t"," ","e","x","t","e","r","n","a","l"," ","u","s","e","r","s">>)
     THEN <<"C","r","i","t","i","c","a","l">>
     ELSE IF \/ includes(t, <<"v","i","s","i","t","o","r">>)
             \/ includes(t, <<"e","x","c","e","l"," ","s","e","r","v","i","c","e","s"," ","v","i","e","w","e","r","s">>)
             \/ includes(t, <<"p","o","r","t","f","o","l","i","o"," ","v","i","e","w","e","r","s">>)
     THEN <<"M","e","d","i","u","m">>
     ELSE IF \/ includes(t, <<"o","w","n","e","r">>)
             \/ includes(t, <<"m","e","m","b","e","r">>)
             \/ includes(t, <<"a","d","m","i","n","i","s","t","r","a","t","o","r">>)
             \/ includes(t, <<"p","r","o","j","e","c","t"," ","m","a","n","a","g","e","r">>)
             \/ includes(t, <<"t","e","a","m"," ","l","e","a","d">>)
             \/ includes(t, <<"r","e","s","o","u","r","c","e"," ","m","a","n","a","g","e","r">>)
     THEN <<"L","o","w">>
     ELSE <<"U","n","k","n","o","w","n">>

\* e.replace(/^\./, '')
stripLeadingDot(e) == IF Len(e) > 0 /\ e[1] = "." THEN SubSeq(e, 2, Len(e)) ELSE e

getContentCategory(ext) ==
  LET e == stripLeadingDot(trim(toLowerCase(ext)))
  IN IF e \in { <<"d","o","c">>, <<"d","o","c","x">>, <<"p","d","f">>, <<"x","l","s","x">>, <<"x","l","s">>, <<"p","p","t">>, <<"p","p","t","x">>, <<"f","o","l","d","e","r">> }
     THEN <<"B","u","s","i","n","e","s","s">>
     ELSE IF e \in { <<"a","s","p","x">>, <<"o","d","c">>, <<"n","/","a">>, <<"u","n","k","n","o","w","n">>, <<>> }
     THEN <<"S","y","s","t","e","m">>
     ELSE IF e \in { <<"j","p","g">>, <<"j","p","e","g">>, <<"p","n","g">>, <<"g","i","f">>, <<"m","p","4">>, <<"m","p","3">>, <<"w","a","v">>, <<"m","o","v">> }
     THEN <<"M","e","d","i","a">>
     ELSE <<"O","t","h","e","r">>

(***************************************************************************)
(* parseCSV                                                                 *)
(***************************************************************************)

\* csvText.split(/\r\n|\n/)
splitLines(text) ==
  LET breaks == {i \in 1..Len(text) : text[i] = NL}
      n == Cardinality(breaks)
      break(k) == CHOOSE i \in breaks : Cardinality({j \in breaks : j < i}) = k - 1
      first(k) == IF k = 1 THEN 1 ELSE break(k - 1) + 1
      last(k) == IF k = n + 1 THEN Len(text)
                 ELSE IF break(k) > first(k) /\ text[break(k) - 1] = CR THEN break(k) - 2
                 ELSE break(k) - 1
  IN [k \in 1..(n + 1) |-> SubSeq(text, first(k), last(k))] \o <<>>

\* v.replace(/^"|"$/g, '')
stripQuotes(v) ==
  LET a == IF Len(v) > 0 /\ v[1] = Q THEN SubSeq(v, 2, Len(v)) ELSE v
  IN IF Len(a) > 0 /\ a[Len(a)] = Q THEN SubSeq(a, 1, Len(a) - 1) ELSE a

\* one iteration of the for loop of splitLine on scan state
\* s = [i, current, inQuote, values] (i is 1-based)
splitStepCommaAlways(line, s) ==
  IF line[s.i] = Q
  THEN IF s.i + 1 <= Len(line) /\ line[s.i + 1] = Q
       THEN [s EXCEPT !.i = s.i + 2, !.current = Append(s.current, Q)]
       ELSE [s EXCEPT !.i = s.i + 1, !.inQuote = ~s.inQuote]
  ELSE IF line[s.i] = COMMA
       THEN [s EXCEPT !.i = s.i + 1, !.current = <<>>,
                      !.values = Append(s.values, trim(s.current))]
       ELSE [s EXCEPT !.i = s.i + 1, !.current = Append(s.current, line[s.i])]
splitStep(line, s) ==
  IF line[s.i] = Q
  THEN IF s.i + 1 <= Len(line) /\ line[s.i + 1] = Q
       THEN [s EXCEPT !.i = s.i + 2, !.current = Append(s.current, Q)]
       ELSE [s EXCEPT !.i = s.i + 1, !.inQuote = ~s.inQuote]
  ELSE IF line[s.i] = COMMA /\ ~s.inQuote
       THEN [s EXCEPT !.i = s.i + 1, !.current = <<>>,
                      !.values = Append(s.values, trim(s.current))]
       ELSE [s EXCEPT !.i = s.i + 1, !.current = Append(s.current, line[s.i])]

RECURSIVE splitScan(_, _)
splitScan(line, s) == IF s.i > Len(line) THEN s ELSE splitScan(line, splitStep(line, s))

splitLine(line) ==
  LET s == splitScan(line, [i |-> 1, current |-> <<>>, inQuote |-> FALSE, values |-> <<>>])
      v == Append(s.values, trim(s.current))
  IN [k \in 1..Len(v) |-> stripQuotes(v[k])] \o <<>>

\* an array index key ("0", "1", ... without leading zero): such keys
\* enumerate first, in ascending order, in a JavaScript object
isArrayIndex(k) ==
  /\ Len(k) > 0
  /\ \A i \in 1..Len(k) : k[i] \in Range(DigitChars)
  /\ (Len(k) > 1 => k[1] # "0")

digitValue(c) == (CHOOSE i \in 1..10 : DigitChars[i] = c) - 1

RECURSIVE digitsValue(_)
digitsValue(k) ==
  IF Len(k) = 0 THEN 0
  ELSE 10 * digitsValue(SubSeq(k, 1, Len(k) - 1)) + digitValue(k[Len(k)])

objHas(obj, k) == \E i \in 1..Len(obj) : obj[i][1] = k

\* obj[k]
objGet(obj, k) ==
  IF objHas(obj, k) THEN obj[CHOOSE i \in 1..Len(obj) : obj[i][1] = k][2] ELSE Undefined

\* obj[k] = v
objSet(obj, k, v) ==
  IF objHas(obj, k)
  THEN [i \in 1..Len(obj) |-> IF obj[i][1] = k THEN <<k, v>> ELSE obj[i]] \o <<>>
  ELSE IF isArrayIndex(k)
       THEN LET before == SelectSeq(obj, LAMBDA p : isArrayIndex(p[1]) /\ digitsValue(p[1]) < digitsValue(k))
                after == SelectSeq(obj, LAMBDA p : ~(isArrayIndex(p[1]) /\ digitsValue(p[1]) < digitsValue(k)))
            IN before \o <<<<k, v>>>> \o after
       ELSE Append(obj, <<k, v>>)

\* Object.values(obj), Object.keys(obj)
objValues(obj) == [i \in 1..Len(obj) |-> obj[i][2]] \o <<>>
objKeys(obj) == [i \in 1..Len(obj) |-> obj[i][1]] \o <<>>

\* headers.forEach((h, index) => { row[h] = values[index] || ""; })
RECURSIVE makeRowFrom(_, _, _, _)
makeRowFrom(hdrs, values, index, row) ==
  IF index > Len(hdrs) THEN row
  ELSE makeRowFrom(hdrs, values, index + 1,
         objSet(row, hdrs[index], IF index <= Len(values) THEN values[index] ELSE <<>>))

makeRowKeepExcess(hdrs, values) ==
  makeRowFrom(hdrs \o [i \in 1..(Len(values) - Len(hdrs)) |-> <<"e","x","t","r","a">>], values, 1, <<>>)
makeRow(hdrs, values) == makeRowFrom(hdrs, values, 1, <<>>)

\* the line loop of parseCSV
RECURSIVE parseLines(_, _, _, _, _)
parseLines(lines, i, headerFound, hdrs, result) ==
  IF i > Len(lines) THEN [data |-> result, fields |-> hdrs]
  ELSE LET line == trim(lines[i]) IN
    IF line = <<>> THEN parseLines(lines, i + 1, headerFound, hdrs, result)
    ELSE IF ~headerFound
         THEN parseLines(lines, i + 1, TRUE, hdrs \o splitLine(line), result)
         ELSE parseLines(lines, i + 1, headerFound, hdrs,
                Append(result, makeRow(hdrs, splitLine(line))))

parseCSVFirstLineHeader(csvText) ==
  LET lines == splitLines(csvText)
  IN parseLines(lines, 2, TRUE, splitLine(trim(lines[1])), <<>>)
parseCSV(csvText) == parseLines(splitLines(csvText), 1, FALSE, <<>>, <<>>)

(***************************************************************************)
(* Column inference                                                         *)
(***************************************************************************)
endsWith(s, suffix) == matchAt(s, suffix, Len(s) - Len(suffix) + 1)

\* /site(name|_name)?$|^site$|siteurl|weburl|web url/i.test(h)
sitePattern(h) ==
  LET t == toLowerCase(h)
  IN \/ endsWith(t, <<"s","i","t","e">>) \/ endsWith(t, <<"s","i","t","e","n","a","m","e">>) \/ endsWith(t, <<"s","i","t","e","_","n","a","m","e">>)
     \/ t = <<"s","i","t","e">>
     \/ includes(t, <<"s","i","t","e","u","r","l">>) \/ includes(t, <<"w","e","b","u","r","l">>) \/ includes(t, <<"w","e","b"," ","u","r","l">>)

\* headers[0]
firstOf(hdrs) == IF Len(hdrs) > 0 THEN hdrs[1] ELSE Undefined

guessSiteColumn(hdrs) ==
  LET candidates == SelectSeq(hdrs, sitePattern)
  IN IF Len(candidates) > 0 THEN candidates[1] ELSE firstOf(hdrs)

\* a variant that takes the last header including the keyword
findLastIndexIncluding(lower, k) ==
  LET hit(i) == includes(lower[i], toLowerCase(k))
  IN IF \E i \in 1..Len(lower) : hit(i)
     THEN CHOOSE i \in 1..Len(lower) : hit(i) /\ \A j \in (i + 1)..Len(lower) : ~hit(j)
     ELSE 0
\* lower.findIndex(h => h.includes(k.toLowerCase())), 1-based, 0 when none;
\* lower is headers.map(h => h.toLowerCase())
findIndexIncluding(lower, k) ==
  LET hit(i) == includes(lower[i], toLowerCase(k))
  IN IF \E i \in 1..Len(lower) : hit(i)
     THEN CHOOSE i \in 1..Len(lower) : hit(i) /\ \A j \in 1..(i - 1) : ~hit(j)
     ELSE 0

\* the for loop of findColumns from keyword j on
RECURSIVE findColumnsFrom(_, _, _)
findColumnsFrom(hdrs, keywords, j) ==
  IF j > Len(keywords) THEN Null
  ELSE LET lower == [i \in 1..Len(hdrs) |-> toLowerCase(hdrs[i])]
            matchIdx == findIndexIncluding(lower, keywords[j])
       IN IF matchIdx > 0 THEN hdrs[matchIdx] ELSE findColumnsFrom(hdrs, keywords, j + 1)

\* a variant that scans the headers first and the keywords second
findColumnsHeaderFirst(hdrs, keywords) ==
  LET hit(i) == \E j \in 1..Len(keywords) : includes(toLowerCase(hdrs[i]), toLowerCase(keywords[j]))
  IN IF \E i \in 1..Len(hdrs) : hit(i)
     THEN hdrs[CHOOSE i \in 1..Len(hdrs) : hit(i) /\ \A j \in 1..(i - 1) : ~hit(j)]
     ELSE Null
findColumns(hdrs, keywords) == findColumnsFrom(hdrs, keywords, 1)

fileCountKeywords == << <<"f","i","l","e","c","o","u","n","t">>, <<"s","i","t","e","f","i","l","e","c","o","u","n","t">>, <<"i","t","e","m","c","o","u","n","t">>, <<"d","o","c","u","m","e","n","t","c","o","u","n","t">>, <<"c","o","u","n","t">> >>
fileSizeKeywords == << <<"f","i","l","e","s","i","z","e">>, <<"f","i","l","e","_","s","i","z","e">>, <<"s","i","z","e">>, <<"s","t","o","r","a","g","e","u","s","a","g","e">> >>
lastModKeywords == << <<"l","a","s","t","m","o","d","i","f","i","e","d">>, <<"m","o","d","i","f","i","e","d">>, <<"l","a","s","t","m","o","d","i","f","i","e","d","d","a","t","e">> >>
fileTypeKeywords == << <<"e","x","t","e","n","s","i","o","n">>, <<"f","i","l","e","t","y","p","e">>, <<"f","i","l","e","_","t","y","p","e">>, <<"t","y","p","e">>, <<"d","o","c","i","c","o","n">>, <<"i","t","e","m","t","y","p","e">> >>
fileNameKeywords == << <<"f","i","l","e","n","a","m","e">>, <<"f","i","l","e","_","n","a","m","e">>, <<"n","a","m","e">>, <<"i","t","e","m","n","a","m","e">>, <<"u","r","l">>, <<"p","a","t","h">>, <<"l","i","n","k">> >>
permKeywords == << <<"p","e","r","m","i","s","s","i","o","n","s">>, <<"p","e","r","m">>, <<"u","s","e","r","g","r","o","u","p">>, <<"g","r","o","u","p">>, <<"s","h","a","r","e","d","w","i","t","h">>, <<"a","c","c","e","s","s">>, <<"s","h","a","r","i","n","g">> >>

\* the values updateColumnKeys hands to the eight state setters
updateColumnKeys(hdrs) ==
  [headers |-> hdrs,
   siteKey |-> guessSiteColumn(hdrs),
   fileCountKey |-> findColumns(hdrs, fileCountKeywords),
   fileSizeKey |-> findColumns(hdrs, fileSizeKeywords),
   lastModKey |-> findColumns(hdrs, lastModKeywords),
   fileTypeKey |-> findColumns(hdrs, fileTypeKeywords),
   fileNameKey |-> findColumns(hdrs, fileNameKeywords),
   permKey |-> findColumns(hdrs, permKeywords)]

(***************************************************************************)
(* Numbers and dates                                                        *)
(***************************************************************************)

\* v || "", !v: undefined, null and the empty string are falsy
truthy(v) == v # Undefined /\ v # Null /\ v # <<>>

\* obj[key] with a key that may be null or undefined (coerced to its name)
prop(obj, key) ==
  objGet(obj, IF key = Null THEN <<"n","u","l","l">> ELSE IF key = Undefined THEN <<"u","n","d","e","f","i","n","e","d">> ELSE key)

\* Number(s) for a string of digits, '.' and '-': NaN is reported as ok = FALSE.
\* The model's numbers are integers: a literal with a non-zero fraction is
\* outside it and has no value here.
toNumber(s) ==
  LET neg == Len(s) > 0 /\ s[1] = "-"
      body == IF neg THEN SubSeq(s, 2, Len(s)) ELSE s
      dots == {i \in 1..Len(body) : body[i] = "."}
      intPart == IF dots = {} THEN body ELSE SubSeq(body, 1, (CHOOSE i \in dots : TRUE) - 1)
      fracPart == IF dots = {} THEN <<>> ELSE SubSeq(body, (CHOOSE i \in dots : TRUE) + 1, Len(body))
  IN IF s = <<>> THEN [ok |-> TRUE, n |-> 0]
     ELSE IF \/ Cardinality(dots) > 1
             \/ \E i \in 1..Len(body) : body[i] = "-"
             \/ Len(intPart) + Len(fracPart) = 0
     THEN [ok |-> FALSE, n |-> 0]
     ELSE CASE \A i \in 1..Len(fracPart) : fracPart[i] = "0" ->
            [ok |-> TRUE, n |-> IF neg THEN 0 - digitsValue(intPart) ELSE digitsValue(intPart)]

parseNumber(v) ==
  IF v = Null \/ v = Undefined THEN 0
  ELSE LET n == toNumber(SelectSeq(v, LAMBDA c : c \in Range(DigitChars) \cup {".", "-"}))
       IN IF n.ok THEN n.n ELSE 0

\* String(n) for an integer n
RECURSIVE natToString(_)
natToString(n) ==
  IF n < 10 THEN <<DigitChars[n + 1]>>
  ELSE Append(natToString(n \div 10), DigitChars[(n % 10) + 1])

numberToString(n) == IF n < 0 THEN <<"-">> \o natToString(0 - n) ELSE natToString(n)

\* (kb / 1024).toFixed(2) for an integer kb: the nearest hundredth, a tie
\* going to the larger magnitude, the sign kept
totalMBFixed2(kb) ==
  LET mag == IF kb < 0 THEN 0 - kb ELSE kb
      h == (mag * 200 + 1024) \div 2048
      frac == natToString(h % 100)
  IN (IF kb < 0 THEN <<"-">> ELSE <<>>) \o natToString(h \div 100) \o <<".">>
       \o (IF Len(frac) = 1 THEN <<"0">> ELSE <<>>) \o frac

\* new Date(v) for a calendar date written YYYY-MM-DD (UTC midnight), as the
\* triple <<year, month, day>>; every other text of the model is an invalid
\* date.  The datasets of the model carry dates in this form only.
parseDate(v) ==
  IF /\ Len(v) = 10 /\ v[5] = "-" /\ v[8] = "-"
     /\ \A i \in {1, 2, 3, 4, 6, 7, 9, 10} : v[i] \in Range(DigitChars)
     /\ digitsValue(SubSeq(v, 6, 7)) \in 1..12
     /\ digitsValue(SubSeq(v, 9, 10)) \in 1..28
  THEN [valid |-> TRUE,
        t |-> <<digitsValue(SubSeq(v, 1, 4)), digitsValue(SubSeq(v, 6, 7)), digitsValue(SubSeq(v, 9, 10))>>]
  ELSE [valid |-> FALSE, t |-> <<0, 0, 0>>]

\* a.getTime() < b.getTime()
dateBefore(a, b) ==
  \/ a[1] < b[1]
  \/ a[1] = b[1] /\ a[2] < b[2]
  \/ a[1] = b[1] /\ a[2] = b[2] /\ a[3] < b[3]

pad(n, width) ==
  LET d == natToString(n) IN [i \in 1..(width - Len(d)) |-> "0"] \o d

\* d.toISOString()
toISOString(d) == pad(d[1], 4) \o <<"-">> \o pad(d[2], 2) \o <<"-">> \o pad(d[3], 2) \o <<"T","0","0",":","0","0",":","0","0",".","0","0","0","Z">>

\* arr.join(sep) for an array of strings
RECURSIVE join(_, _)
join(arr, sep) ==
  IF Len(arr) = 0 THEN <<>>
  ELSE IF Len(arr) = 1 THEN arr[1]
  ELSE arr[1] \o sep \o join(Tail(arr), sep)

\* the last maximal piece of s free of character c: s.split(c).pop()
lastPiece(s, c) ==
  IF \E i \in 1..Len(s) : s[i] = c
  THEN SubSeq(s, (CHOOSE i \in 1..Len(s) : s[i] = c /\ \A j \in (i + 1)..Len(s) : s[j] # c) + 1, Len(s))
  ELSE s

\* a variant that cuts at the first ? only
beforeQuestionMark(s) ==
  IF \E i \in 1..Len(s) : s[i] = "?"
  THEN SubSeq(s, 1, (CHOOSE i \in 1..Len(s) : s[i] = "?" /\ \A j \in 1..(i - 1) : s[j] # "?") - 1)
  ELSE s
\* s.split(/[?#]/)[0]
beforeQuery(s) ==
  IF \E i \in 1..Len(s) : s[i] \in {"?", "#"}
  THEN SubSeq(s, 1, (CHOOSE i \in 1..Len(s) : s[i] \in {"?", "#"} /\ \A j \in 1..(i - 1) : s[j] \notin {"?", "#"}) - 1)
  ELSE s

(***************************************************************************)
(* Derived views of the component: each is a function of the state, as the  *)
(* useMemo blocks are.                                                      *)
(***************************************************************************)
getFileExtension(row) ==
  LET val ==
        IF truthy(fileTypeKey) /\ truthy(prop(row, fileTypeKey))
        THEN prop(row, fileTypeKey)
        ELSE IF truthy(fileNameKey) /\ truthy(prop(row, fileNameKey))
        THEN LET lastSegment == lastPiece(prop(row, fileNameKey), "/")
             IN IF \E i \in 1..Len(lastSegment) : lastSegment[i] = "."
                THEN beforeQuery(lastPiece(lastSegment, "."))
                ELSE <<>>
        ELSE <<>>
      clean == stripLeadingDot(trim(toLowerCase(val)))
  IN IF val = <<>> THEN <<"u","n","k","n","o","w","n">>
     ELSE IF Len(clean) > 0 /\ Len(clean) < 10 THEN clean ELSE <<"u","n","k","n","o","w","n">>

\* the array that Array.prototype.map builds, given its elements by index
arrayOf(f) == f \o <<>>

\* Object.values(r).join(" ")
rowText(r) == join(objValues(r), <<" ">>)

\* the callback of rows.filter in filteredRows
passesFiltersPermissionsOnly(r) ==
  /\ fileTypeFilter # <<"A","l","l">> => getFileExtension(r) = fileTypeFilter
  /\ riskFilter # <<"A","l","l">> =>
       LET risk == getRiskProfile(IF truthy(prop(r, permKey)) THEN prop(r, permKey) ELSE <<>>)
       IN /\ ~(riskFilter = <<"C","r","i","t","i","c","a","l">> /\ risk # <<"C","r","i","t","i","c","a","l">>)
          /\ ~(riskFilter = <<"M","e","d","i","u","m">> /\ risk # <<"M","e","d","i","u","m">>)
          /\ ~(riskFilter = <<"L","o","w">> /\ risk # <<"L","o","w">>)
  /\ categoryFilter # <<"A","l","l">> => getContentCategory(getFileExtension(r)) = categoryFilter
passesFilters(r) ==
  /\ fileTypeFilter # <<"A","l","l">> => getFileExtension(r) = fileTypeFilter
  /\ riskFilter # <<"A","l","l">> =>
       LET risk == getRiskProfile(rowText(r))
       IN /\ ~(riskFilter = <<"C","r","i","t","i","c","a","l">> /\ risk # <<"C","r","i","t","i","c","a","l">>)
          /\ ~(riskFilter = <<"M","e","d","i","u","m">> /\ risk # <<"M","e","d","i","u","m">>)
          /\ ~(riskFilter = <<"L","o","w">> /\ risk # <<"L","o","w">>)
  /\ categoryFilter # <<"A","l","l">> => getContentCategory(getFileExtension(r)) = categoryFilter

filteredRows == SelectSeq(rows, passesFilters)

\* the values of the file type options: "All" and every extension of rows
fileTypeOptions == { <<"A","l","l">> } \cup {getFileExtension(rows[i]) : i \in 1..Len(rows)}

\* (r[siteKey] || "(unknown)").trim()
siteNameOf(r) == trim(IF truthy(prop(r, siteKey)) THEN prop(r, siteKey) ELSE <<"(","u","n","k","n","o","w","n",")">>)

\* the keys of the Map built by the first loop of siteAgg, in insertion order
RECURSIVE siteNamesFrom(_, _, _)
siteNamesFrom(frows, i, names) ==
  IF i > Len(frows) THEN names
  ELSE siteNamesFrom(frows, i + 1,
         IF \E k \in 1..Len(names) : names[k] = siteNameOf(frows[i])
         THEN names ELSE Append(names, siteNameOf(frows[i])))

RECURSIVE sumOf(_)
sumOf(nums) == IF Len(nums) = 0 THEN 0 ELSE nums[1] + sumOf(Tail(nums))

\* new Date(Math.max(...lastDates.map(d => d.getTime()))), null when empty
\* a variant that takes the earliest date
maxDateEarliest(dates) ==
  IF Len(dates) = 0 THEN Null
  ELSE dates[CHOOSE i \in 1..Len(dates) : \A j \in 1..Len(dates) : ~dateBefore(dates[j], dates[i])]
maxDate(dates) ==
  IF Len(dates) = 0 THEN Null
  ELSE dates[CHOOSE i \in 1..Len(dates) : \A j \in 1..Len(dates) : ~dateBefore(dates[i], dates[j])]

\* let files: the sum of the file count column, or the number of rows
siteFiles(siteRows) ==
  IF truthy(fileCountKey)
  THEN sumOf(arrayOf([i \in 1..Len(siteRows) |-> parseNumber(prop(siteRows[i], fileCountKey))]))
  ELSE Len(siteRows)

\* let totalKB
siteTotalKB(siteRows) ==
  IF truthy(fileSizeKey)
  THEN sumOf(arrayOf([i \in 1..Len(siteRows) |-> parseNumber(prop(siteRows[i], fileSizeKey))]))
  ELSE 0

\* lastDates: the dates of the rows that parse
siteLastDates(siteRows) ==
  SelectSeq(arrayOf([i \in 1..Len(siteRows) |->
                       IF truthy(prop(siteRows[i], lastModKey))
                       THEN parseDate(prop(siteRows[i], lastModKey))
                       ELSE [valid |-> FALSE, t |-> <<0, 0, 0>>]]),
            LAMBDA d : d.valid)

\* const lastModified
siteLastModified(lastDates) == maxDate(arrayOf([i \in 1..Len(lastDates) |-> lastDates[i].t]))

\* const combinedText
\* a variant that takes the text of the first row of the site alone
siteCombinedTextFirstRow(siteRows) == rowText(siteRows[1])
siteCombinedText(siteRows) ==
  join(arrayOf([i \in 1..Len(siteRows) |-> rowText(siteRows[i])]), <<" ">>)

\* the record pushed for one entry of the Map, given its combinedText and
\* sharing (totalMB and totalGB are quotients of totalKB and are formed where
\* they are used)
sitePushed(siteName, siteRows, lowerText, sharing) ==
  [siteName |-> siteName,
   files |-> siteFiles(siteRows),
   totalKB |-> siteTotalKB(siteRows),
   lastModified |-> siteLastModified(siteLastDates(siteRows)),
   sharingLevel |-> sharing.level,
   sharingRank |-> sharing.rank,
   visibleEveryone |-> testWords(lowerText, { <<"e","v","e","r","y","o","n","e">> }),
   visibleExternal |-> testWords(lowerText, { <<"e","x","t","e","r","n","a","l">>, <<"g","u","e","s","t">>, <<"a","n","o","n">>, <<"a","n","y","o","n","e">> }),
   rawRows |-> siteRows]

siteRecordFrom(siteName, siteRows, combinedText) ==
  sitePushed(siteName, siteRows, toLowerCase(combinedText), classifySharing(combinedText))

\* one iteration of the loop over map.entries()
siteRecord(siteName, siteRows) ==
  siteRecordFrom(siteName, siteRows, siteCombinedText(siteRows))

\* Array.prototype.sort, given the comparator's results cmp[i, j] on the
\* elements at i and j: stable, arr[i] before arr[j] when cmp[i, j] < 0
sortWith(arr, cmp) ==
  [k \in 1..Len(arr) |->
     arr[CHOOSE i \in 1..Len(arr) :
           k = 1 + Cardinality({j \in 1..Len(arr) :
                     \/ cmp[j, i] < 0
                     \/ cmp[j, i] = 0 /\ j < i})]] \o <<>>

\* distribution[ext] = (distribution[ext] || 0) + 1 on an object literal.  For
\* the key __proto__ the read gives Object.prototype, the sum is a text, and
\* the assignment of a text to __proto__ is ignored: no property is made.
countExtension(distribution, ext) ==
  IF ext = <<"_","_","p","r","o","t","o","_","_">> THEN distribution
  ELSE objSet(distribution, ext,
              (IF objHas(distribution, ext) THEN objGet(distribution, ext) ELSE 0) + 1)

\* filteredRows.forEach(...)
RECURSIVE distributionOf(_, _, _)
distributionOf(frows, i, distribution) ==
  IF i > Len(frows) THEN distribution
  ELSE distributionOf(frows, i + 1, countExtension(distribution, getFileExtension(frows[i])))

\* const stats: the entries of the distribution, largest value first
statsOf(distribution) ==
  sortWith(arrayOf([i \in 1..Len(distribution) |->
                      [name |-> distribution[i][1], value |-> distribution[i][2]]]),
           [i, j \in 1..Len(distribution) |-> distribution[j][2] - distribution[i][2]])

\* chartData: the first 8 entries and Other for the rest
chartDataOf(stats, others) ==
  SubSeq(stats, 1, IF Len(stats) < 8 THEN Len(stats) ELSE 8)
    \o (IF others > 0 THEN <<[name |-> <<"O","t","h","e","r">>, value |-> others]>> ELSE <<>>)

fileTypeStatsOf(stats) ==
  chartDataOf(stats, IF Len(stats) > 8
                     THEN sumOf(arrayOf([i \in 1..(Len(stats) - 8) |-> stats[i + 8].value]))
                     ELSE 0)

fileTypeStats ==
  IF Len(rows) = 0 THEN <<>> ELSE fileTypeStatsOf(statsOf(distributionOf(filteredRows, 1, <<>>)))

\* the order of Array.prototype.sort without a comparator: by UTF-16 code
\* units, here of printable ASCII without the grave accent
AsciiChars ==
  <<" ","!","\"","#","$","%","&","'","(",")","*","+",",","-",".","/","0","1","2","3","4","5","6","7","8","9",":",";","<","=",">","?","@","A","B","C","D","E","F","G","H","I","J","K","L","M","N","O","P","Q","R","S","T","U","V","W","X","Y","Z","[","\\","]","^","_","a","b","c","d","e","f","g","h","i","j","k","l","m","n","o","p","q","r","s","t","u","v","w","x","y","z","{","|","}","~">>
codeUnit(c) == CHOOSE i \in 1..Len(AsciiChars) : AsciiChars[i] = c
RECURSIVE codeUnitsBefore(_, _)
codeUnitsBefore(a, b) ==
  IF b = <<>> THEN FALSE
  ELSE IF a = <<>> THEN TRUE
  ELSE IF a[1] = b[1] THEN codeUnitsBefore(Tail(a), Tail(b))
  ELSE codeUnit(a[1]) < codeUnit(b[1])

\* Array.from(typesSet).sort()
sortedTypes(types) ==
  [k \in 1..Cardinality(types) |->
     CHOOSE t \in types : Cardinality({u \in types : codeUnitsBefore(u, t)}) = k - 1] \o <<>>

allFileTypes ==
  IF Len(rows) = 0 THEN <<>>
  ELSE sortedTypes({getFileExtension(rows[i]) : i \in 1..Len(rows)})

\* the sites array, in the insertion order of the Map
siteRecords(frows, names) ==
  arrayOf([k \in 1..Len(names) |->
             siteRecord(names[k], SelectSeq(frows, LAMBDA r : siteNameOf(r) = names[k]))])

\* sites.sort((a,b) => b.files - a.files)
sortByFiles(sites) ==
  sortWith(sites, [i, j \in 1..Len(sites) |-> sites[j].files - sites[i].files])

\* the body of the siteAgg memo on the filtered rows
siteAggOf(frows) ==
  IF Len(frows) = 0 \/ ~truthy(siteKey) THEN <<>>
  ELSE sortByFiles(siteRecords(frows, siteNamesFrom(frows, 1, <<>>)))

\* siteAgg.sites
siteAggSites == siteAggOf(filteredRows)

\* Math.round(n / total * 10000) / 100 for 0 <= n <= total, in hundredths of
\* a percent (5000 is 50.00), and 0 when total is 0
pctOf(n, total) == IF total # 0 THEN (2 * n * 10000 + total) \div (2 * total) ELSE 0

\* a variant that counts a site as public by its sharing level alone
summaryByLevelOnly(sites) ==
  LET totalSites == Len(sites)
      publicSites == Len(SelectSeq(sites, LAMBDA s : s.sharingLevel = <<"E","x","t","e","r","n","a","l"," ","(","A","n","o","n","y","m","o","u","s",")">>))
      everyoneSites == Len(SelectSeq(sites, LAMBDA s : s.visibleEveryone \/ s.visibleExternal))
  IN [totalSites |-> totalSites,
      publicSites |-> publicSites,
      publicPct |-> pctOf(publicSites, totalSites),
      everyoneSites |-> everyoneSites,
      everyonePct |-> pctOf(everyoneSites, totalSites),
      totalKB |-> sumOf(arrayOf([i \in 1..Len(sites) |-> sites[i].totalKB])),
      totalFiles |-> sumOf(arrayOf([i \in 1..Len(sites) |-> sites[i].files]))]
\* the summary metrics of the given siteAgg.sites; the staleThreshold field is
\* getStaleThreshold below
summaryOf(sites) ==
  LET totalSites == Len(sites)
      publicSites == Len(SelectSeq(sites, LAMBDA s :
                           s.sharingLevel = <<"E","x","t","e","r","n","a","l"," ","(","A","n","o","n","y","m","o","u","s",")">> \/ s.visibleExternal))
      everyoneSites == Len(SelectSeq(sites, LAMBDA s : s.visibleEveryone \/ s.visibleExternal))
  IN [totalSites |-> totalSites,
      publicSites |-> publicSites,
      publicPct |-> pctOf(publicSites, totalSites),
      everyoneSites |-> everyoneSites,
      everyonePct |-> pctOf(everyoneSites, totalSites),
      totalKB |-> sumOf(arrayOf([i \in 1..Len(sites) |-> sites[i].totalKB])),
      totalFiles |-> sumOf(arrayOf([i \in 1..Len(sites) |-> sites[i].files]))]

summary == summaryOf(siteAggSites)

\* An instant is a calendar date (UTC) and the time of day in milliseconds;
\* new Date(v) of a YYYY-MM-DD text is midnight of that date.
isLeapYear(y) == (y % 4 = 0 /\ y % 100 # 0) \/ y % 400 = 0
daysInMonth(y, m) ==
  IF m = 2 THEN (IF isLeapYear(y) THEN 29 ELSE 28)
  ELSE IF m \in {4, 6, 9, 11} THEN 30 ELSE 31

\* the date that Date keeps for year y, month m (1..12) and day d (1..31): a
\* day past the end of the month rolls over into the next month
rollOver(y, m, d) ==
  IF d > daysInMonth(y, m) THEN <<y, m + 1, d - daysInMonth(y, m)>> ELSE <<y, m, d>>

\* threshold.setMonth(threshold.getMonth() - k) for k of 6 and 12
setMonthBack(date, k) ==
  IF date[2] - k >= 1 THEN rollOver(date[1], date[2] - k, date[3])
  ELSE rollOver(date[1] - 1, date[2] - k + 12, date[3])

\* threshold.setFullYear(threshold.getFullYear() - k)
setFullYearBack(date, k) == rollOver(date[1] - k, date[2], date[3])

\* getStaleThreshold(period) when new Date() is now
getStaleThreshold(period, now) ==
  [date |-> IF period = <<"6","m","o","n","t","h","s">> THEN setMonthBack(now.date, 6)
            ELSE IF period = <<"1","2","m","o","n","t","h","s">> THEN setMonthBack(now.date, 12)
            ELSE IF period = <<"2","y","e","a","r","s">> THEN setFullYearBack(now.date, 2)
            ELSE IF period = <<"5","y","e","a","r","s">> THEN setFullYearBack(now.date, 5)
            ELSE setMonthBack(now.date, 6),
   ms |-> now.ms]

\* a < b for instants
instantBefore(a, b) == dateBefore(a.date, b.date) \/ (a.date = b.date /\ a.ms < b.ms)

\* new Date(v) of a text that parses
dateInstant(v) == [date |-> parseDate(v).t, ms |-> 0]

\* a variant of the stale test that also takes the rows dated at the threshold
isStaleRowInclusive(r, staleThreshold) ==
  LET v == prop(r, lastModKey)
  IN /\ truthy(v)
     /\ parseDate(v).valid
     /\ ~instantBefore(staleThreshold, dateInstant(v))
\* the filter callback of s.rawRows.filter
isStaleRow(r, staleThreshold) ==
  LET v == prop(r, lastModKey)
  IN /\ truthy(v)
     /\ parseDate(v).valid
     /\ instantBefore(dateInstant(v), staleThreshold)

\* staleFiles.reduce((minDate, r) => ..., new Date())
RECURSIVE oldestStaleDate(_, _)
oldestStaleDate(staleFiles, minDate) ==
  IF Len(staleFiles) = 0 THEN minDate
  ELSE LET d == dateInstant(prop(staleFiles[1], lastModKey))
       IN oldestStaleDate(Tail(staleFiles), IF instantBefore(d, minDate) THEN d ELSE minDate)

\* the object returned by the map callback for a site with stale files
staleSiteRecord(s, staleFiles, now) ==
  [siteName |-> s.siteName,
   files |-> s.files,
   totalKB |-> s.totalKB,
   lastModified |-> s.lastModified,
   sharingLevel |-> s.sharingLevel,
   sharingRank |-> s.sharingRank,
   visibleEveryone |-> s.visibleEveryone,
   visibleExternal |-> s.visibleExternal,
   rawRows |-> s.rawRows,
   staleFileCount |-> Len(staleFiles),
   staleKB |-> sumOf(arrayOf([i \in 1..Len(staleFiles) |->
                                parseNumber(prop(staleFiles[i], fileSizeKey))])),
   oldestModified |-> oldestStaleDate(staleFiles, now),
   staleFiles |-> staleFiles]

\* const staleFiles of the map callback
staleFilesOf(s, staleThreshold) == SelectSeq(s.rawRows, LAMBDA r : isStaleRow(r, staleThreshold))

\* the map callback for a site with stale files
staleSiteOf(s, staleThreshold, now) == staleSiteRecord(s, staleFilesOf(s, staleThreshold), now)

\* .map(...).filter(Boolean): the callback's objects, the sites it maps to
\* null (no stale file) dropped
staleSitesMapped(sites, staleThreshold, now) ==
  LET kept == SelectSeq(sites, LAMBDA s : Len(staleFilesOf(s, staleThreshold)) # 0)
  IN arrayOf([i \in 1..Len(kept) |-> staleSiteOf(kept[i], staleThreshold, now)])

\* .sort((a,b) => a.oldestModified.getTime() - b.oldestModified.getTime())
\* a variant that puts the latest oldestModified first
sortByOldestLast(list) ==
  sortWith(list, [i, j \in 1..Len(list) |->
                    IF instantBefore(list[j].oldestModified, list[i].oldestModified) THEN -1
                    ELSE IF instantBefore(list[i].oldestModified, list[j].oldestModified) THEN 1
                    ELSE 0])
sortByOldest(list) ==
  sortWith(list, [i, j \in 1..Len(list) |->
                    IF instantBefore(list[i].oldestModified, list[j].oldestModified) THEN -1
                    ELSE IF instantBefore(list[j].oldestModified, list[i].oldestModified) THEN 1
                    ELSE 0])

\* the body of the staleSitesList memo when new Date() is now
staleSitesOf(sites, now) ==
  IF ~truthy(lastModKey) THEN <<>>
  ELSE sortByOldest(staleSitesMapped(sites, getStaleThreshold(stalePeriod, now), now))

staleSitesList(now) == staleSitesOf(siteAggSites, now)

\* the sign of a.getTime() - b.getTime(), a missing date counting as time 0
dateOrEpoch(d) == IF d # Null THEN d ELSE <<1970, 1, 1>>
datesCompare(at, bt) == IF dateBefore(at, bt) THEN -1 ELSE IF dateBefore(bt, at) THEN 1 ELSE 0
lastModifiedCompare(a, b) == datesCompare(dateOrEpoch(a.lastModified), dateOrEpoch(b.lastModified))

\* the risk of a top site, with the bounds taken inclusively
topRiskInclusive(files) ==
  IF files >= 10000 THEN <<"C","r","i","t","i","c","a","l">>
  ELSE IF files >= 1000 THEN <<"H","i","g","h">>
  ELSE IF files >= 500 THEN <<"M","e","d","i","u","m">>
  ELSE <<"L","o","w">>
\* risk: of an entry of topHeavy
topRisk(files) ==
  IF files > 10000 THEN <<"C","r","i","t","i","c","a","l">>
  ELSE IF files > 1000 THEN <<"H","i","g","h">>
  ELSE IF files > 500 THEN <<"M","e","d","i","u","m">>
  ELSE <<"L","o","w">>

\* sorted: a copy of siteAgg.sites by the chosen metric, largest first
topSorted(sites) ==
  IF gravityMetric = "size"
  THEN sortWith(sites, [i, j \in 1..Len(sites) |-> sites[j].totalKB - sites[i].totalKB])
  ELSE sortWith(sites, [i, j \in 1..Len(sites) |-> sites[j].files - sites[i].files])

\* sorted.slice(0, 10).map(...): sizeMB as the text of totalMB.toFixed(2), of
\* which parseFloat is the number; displaySize, another text formed from
\* totalKB, is left to the chart
topEntries(sorted) ==
  arrayOf([k \in 1..(IF Len(sorted) < TopN THEN Len(sorted) ELSE TopN) |->
             [name |-> sorted[k].siteName,
              files |-> sorted[k].files,
              sizeMB |-> totalMBFixed2(sorted[k].totalKB),
              risk |-> topRisk(sorted[k].files)]])

topHeavy == topEntries(topSorted(siteAggSites))

\* a.localeCompare(b) for names of ASCII letters that differ in more than
\* letter case: the order of their lowercased letters
RECURSIVE lettersCompare(_, _)
lettersCompare(a, b) ==
  IF a = <<>> /\ b = <<>> THEN 0
  ELSE IF a = <<>> THEN -1
  ELSE IF b = <<>> THEN 1
  ELSE IF a[1] = b[1] THEN lettersCompare(Tail(a), Tail(b))
  ELSE IF (CHOOSE i \in 1..26 : LowerChars[i] = a[1]) < (CHOOSE i \in 1..26 : LowerChars[i] = b[1])
  THEN -1 ELSE 1
localeCompare(a, b) == lettersCompare(toLowerCase(a), toLowerCase(b))

\* the comparator of filteredSites
tableCompare(a, b) ==
  (IF sort.dir = "asc" THEN 1 ELSE -1) *
    (CASE sort.key = "name" -> localeCompare(a.siteName, b.siteName)
       [] sort.key = "files" -> a.files - b.files
       [] sort.key = "kb" -> a.totalKB - b.totalKB
       [] sort.key = "last" -> lastModifiedCompare(a, b))

\* the sharing filter of the table
bySharing(sites) ==
  IF filter.sharing # <<>> /\ filter.sharing # <<"a","l","l">>
  THEN SelectSeq(sites, LAMBDA s : s.sharingLevel = filter.sharing)
  ELSE sites

\* the search filter of the table
bySearch(sites, q) ==
  IF q # <<>>
  THEN SelectSeq(sites, LAMBDA s : includes(toLowerCase(s.siteName), q))
  ELSE sites

\* arr.sort of filteredSites
sortTable(sites) ==
  sortWith(sites, [i, j \in 1..Len(sites) |-> tableCompare(sites[i], sites[j])])

filteredSites == sortTable(bySearch(bySharing(siteAggSites), trim(toLowerCase(filter.search))))

\* the object the Download CSV button builds for one table row
exportRow(s) ==
  << << <<"S","i","t","e","N","a","m","e">>, s.siteName >>,
     << <<"F","i","l","e","s">>, numberToString(s.files) >>,
     << <<"T","o","t","a","l","K","B">>, numberToString(s.totalKB) >>,
     << <<"T","o","t","a","l","M","B">>, totalMBFixed2(s.totalKB) >>,
     << <<"S","h","a","r","i","n","g","L","e","v","e","l">>, s.sharingLevel >>,
     << <<"L","a","s","t","M","o","d","i","f","i","e","d">>, IF s.lastModified # Null THEN toISOString(s.lastModified) ELSE <<>> >> >>

exportOf(sites) == arrayOf([i \in 1..Len(sites) |-> exportRow(sites[i])])

\* the array built by the Download CSV button: one object per table row
exportArr == exportOf(filteredSites)

\* String(v).replace(/"/g, '""') between two quotes
RECURSIVE doubleQuotes(_)
doubleQuotes(v) ==
  IF Len(v) = 0 THEN <<>>
  ELSE (IF v[1] = Q THEN <<Q, Q>> ELSE <<v[1]>>) \o doubleQuotes(Tail(v))

quoteField(v) == <<Q>> \o doubleQuotes(v) \o <<Q>>

\* the text downloadCSV puts in the Blob; null when arr is empty (no download)
csvTextOf(arr) ==
  IF Len(arr) = 0 THEN Null
  ELSE LET keys == objKeys(arr[1])
           line(r) == join(arrayOf([k \in 1..Len(keys) |-> quoteField(objGet(r, keys[k]))]),
                           <<COMMA>>)
       IN join(<<join(keys, <<COMMA>>)>> \o arrayOf([i \in 1..Len(arr) |-> line(arr[i])]), <<NL>>)

(***************************************************************************)
(* The dashboard: state after construction, and one action per handler.     *)
(***************************************************************************)
DashboardInit ==
  /\ rows = <<>>
  /\ headers = <<>>
  /\ siteKey = Null
  /\ fileCountKey = Null
  /\ fileSizeKey = Null
  /\ lastModKey = Null
  /\ fileTypeKey = Null
  /\ fileNameKey = Null
  /\ permKey = Null
  /\ fileTypeFilter = <<"A","l","l">>
  /\ riskFilter = <<"A","l","l">>
  /\ categoryFilter = <<"A","l","l">>
  /\ filter = [search |-> <<>>, sharing |-> <<"a","l","l">>]
  /\ sort = [key |-> "files", dir |-> "desc"]
  /\ stalePeriod = <<"6","m","o","n","t","h","s">>
  /\ gravityMetric = "files"
  /\ expandedSite = Null
  /\ download = Null
  /\ posted = <<>>

dashboardVars == <<rows, headers, siteKey, fileCountKey, fileSizeKey, lastModKey,
                   fileTypeKey, fileNameKey, permKey, fileTypeFilter, riskFilter,
                   categoryFilter, filter, sort, stalePeriod, gravityMetric, expandedSite, download, posted>>

harnessVars == <<fn, arg, res, pc>>

\* the CSV texts the model loads: a header line and at most MaxRows data lines
HeaderLines == { <<"S","i","t","e",",","N","a","m","e",",","D","e","s","c">>, <<"S","i","t","e",",","C","o","u","n","t",",","S","i","z","e">>, <<",","N","a","m","e",",","G","r","o","u","p">> }
DataLines ==
  { <<"A",",","1","0",",","E","v","e","r","y","o","n","e">>, <<"A",",","x",".","p","d","f",",","o","w","n","e","r">>, <<"B",",","-","3",",","7">>, <<",","y",".","J","P","G",",","v","i","s","i","t","o","r">>, <<"\"","A","\"","\"","\"","\"","\"",",","5",",","x">>,
    <<"B",",","2",",","G","u","e","s","t">> }

RECURSIVE SeqsUpTo(_, _)
SeqsUpTo(pool, n) ==
  IF n = 0 THEN {<<>>}
  ELSE LET shorter == SeqsUpTo(pool, n - 1)
       IN shorter \cup {Append(s, x) : s \in {t \in shorter : Len(t) = n - 1}, x \in pool}

CsvTexts == {join(<<h>> \o ls, <<NL>>) : h \in HeaderLines, ls \in SeqsUpTo(DataLines, MaxRows)}

\* what one load hands to the state setters: setRows(res.data) and
\* updateColumnKeys(res.meta.fields)
loadResult(csvText) ==
  LET parsed == parseCSV(csvText)
  IN [rows |-> parsed.data, keys |-> updateColumnKeys(parsed.fields)]

\* every text the model loads, paired with its load result
LoadedFiles == {[text |-> t, result |-> loadResult(t)] : t \in CsvTexts \cup {<<>>}}

setDataset(d) ==
  /\ rows' = d.rows
  /\ headers' = d.keys.headers
  /\ siteKey' = d.keys.siteKey
  /\ fileCountKey' = d.keys.fileCountKey
  /\ fileSizeKey' = d.keys.fileSizeKey
  /\ lastModKey' = d.keys.lastModKey
  /\ fileTypeKey' = d.keys.fileTypeKey
  /\ fileNameKey' = d.keys.fileNameKey
  /\ permKey' = d.keys.permKey

datasetVars == <<rows, headers, siteKey, fileCountKey, fileSizeKey, lastModKey,
                 fileTypeKey, fileNameKey, permKey>>

\* a variant that replaces the rows and leaves the headers and roles alone
readerOnLoadRowsOnly(file) ==
  /\ rows' = file.result.rows
  /\ UNCHANGED <<headers, siteKey, fileCountKey, fileSizeKey, lastModKey, fileTypeKey,
                 fileNameKey, permKey>>
  /\ posted' = <<>>
\* reader.onload of onFile on the text of the chosen file, which may be
\* empty, given as its entry of LoadedFiles; the state setters of one
\* handler take effect together
readerOnLoad(file) ==
  /\ setDataset(file.result)
  /\ posted' = <<>>

\* the read of a chosen file completes
ReaderOnLoad ==
  \E file \in LoadedFiles :
    /\ readerOnLoad(file)
    /\ download' = Null
    /\ UNCHANGED <<fileTypeFilter, riskFilter, categoryFilter, filter, sort, stalePeriod, gravityMetric, expandedSite>>
    /\ UNCHANGED harnessVars

\* a csvText that is no string (an object or a number): csvText.split is not
\* a function and parseCSV throws a TypeError at its first statement
NotText == <<"<object>">>
parseCSVThrows(csvText) == csvText = NotText

\* the message posted to window.parent after a load
dataChangeMessage(d) ==
  [type |-> "AI_READINESS_DATA_CHANGE",
   payload |-> [rowCount |-> Len(d.rows), headers |-> d.keys.headers]]

\* a variant that reports the row count of the dataset being replaced
handleMessageStaleCount(data, file) ==
  IF data.type = "LOAD_CSV_DATA" /\ truthy(data.csvText) /\ ~parseCSVThrows(data.csvText)
  THEN /\ setDataset(file.result)
       /\ posted' = <<[dataChangeMessage(file.result) EXCEPT !.payload.rowCount = Len(rows)]>>
  ELSE /\ UNCHANGED datasetVars
       /\ posted' = <<>>
\* handleMessage on event.data, given as its type ("" when the data or its
\* type is missing) and csvText, and the entry of LoadedFiles of that text: a
\* LOAD_CSV_DATA message with non-empty csvText replaces the dataset and
\* notifies the parent; when parseCSV throws, the catch block logs to the
\* console and nothing else happens; any other message changes nothing
handleMessage(data, file) ==
  IF data.type = "LOAD_CSV_DATA" /\ truthy(data.csvText) /\ ~parseCSVThrows(data.csvText)
  THEN /\ setDataset(file.result)
       /\ posted' = <<dataChangeMessage(file.result)>>
  ELSE /\ UNCHANGED datasetVars
       /\ posted' = <<>>

\* a message event reaches the dashboard's listener
HandleMessage ==
  \E type \in {"LOAD_CSV_DATA", "RESIZE", ""}, file \in LoadedFiles :
    \E csvText \in {file.text, NotText} :
      /\ handleMessage([type |-> type, csvText |-> csvText], file)
    /\ download' = Null
    /\ UNCHANGED <<fileTypeFilter, riskFilter, categoryFilter, filter, sort, stalePeriod, gravityMetric, expandedSite>>
    /\ UNCHANGED harnessVars

\* onChange of the File Type select
SetFileTypeFilter ==
  \E t \in fileTypeOptions :
    /\ fileTypeFilter' = t
    /\ download' = Null
    /\ posted' = <<>>
    /\ UNCHANGED <<riskFilter, categoryFilter, filter, sort, stalePeriod, gravityMetric, expandedSite>>
    /\ UNCHANGED datasetVars
    /\ UNCHANGED harnessVars

\* onChange of the Risk Profile select
SetRiskFilter ==
  \E v \in { <<"A","l","l">>, <<"C","r","i","t","i","c","a","l">>, <<"M","e","d","i","u","m">>, <<"L","o","w">> } :
    /\ riskFilter' = v
    /\ download' = Null
    /\ posted' = <<>>
    /\ UNCHANGED <<fileTypeFilter, categoryFilter, filter, sort, stalePeriod, gravityMetric, expandedSite>>
    /\ UNCHANGED datasetVars
    /\ UNCHANGED harnessVars

\* onChange of the Content select
SetCategoryFilter ==
  \E v \in { <<"A","l","l">>, <<"B","u","s","i","n","e","s","s">>, <<"S","y","s","t","e","m">>, <<"M","e","d","i","a">>, <<"O","t","h","e","r">> } :
    /\ categoryFilter' = v
    /\ download' = Null
    /\ posted' = <<>>
    /\ UNCHANGED <<fileTypeFilter, riskFilter, filter, sort, stalePeriod, gravityMetric, expandedSite>>
    /\ UNCHANGED datasetVars
    /\ UNCHANGED harnessVars

\* onClick of Reset Filters, shown while some filter is set
ResetFilters ==
  /\ fileTypeFilter # <<"A","l","l">> \/ riskFilter # <<"A","l","l">> \/ categoryFilter # <<"A","l","l">>
  /\ fileTypeFilter' = <<"A","l","l">>
  /\ riskFilter' = <<"A","l","l">>
  /\ categoryFilter' = <<"A","l","l">>
  /\ download' = Null
  /\ posted' = <<>>
  /\ UNCHANGED <<filter, sort, stalePeriod, gravityMetric, expandedSite>>
  /\ UNCHANGED datasetVars
  /\ UNCHANGED harnessVars

\* onClick of Download CSV: downloadCSV(exportArr, "filtered_sites.csv")
DownloadCSV ==
  /\ download' = csvTextOf(exportArr)
  /\ posted' = <<>>
  /\ UNCHANGED <<fileTypeFilter, riskFilter, categoryFilter, filter, sort, stalePeriod, gravityMetric, expandedSite>>
  /\ UNCHANGED datasetVars
  /\ UNCHANGED harnessVars

Init ==
  /\ DashboardInit
  /\ fn = "none" /\ arg = Null /\ res = Null /\ pc = "idle"

Next ==
  \/ ReaderOnLoad
  \/ HandleMessage
  \/ SetFileTypeFilter
  \/ SetRiskFilter
  \/ SetCategoryFilter
  \/ ResetFilters
  \/ DownloadCSV

Spec == Init /\ [][Next]_vars

(***************************************************************************)
(* SpecFilter: filteredRows applied to every loaded dataset under every     *)
(* selection of the three filters over the labels of the data model.        *)
(***************************************************************************)
RiskLabels == { <<"C","r","i","t","i","c","a","l">>, <<"M","e","d","i","u","m">>, <<"L","o","w">>, <<"U","n","k","n","o","w","n">> }
CategoryLabels == { <<"B","u","s","i","n","e","s","s">>, <<"S","y","s","t","e","m">>, <<"M","e","d","i","a">>, <<"O","t","h","e","r">> }

InitFilter ==
  /\ \E file \in LoadedFiles :
       /\ file.text # <<>>
       /\ rows = file.result.rows
       /\ headers = file.result.keys.headers
       /\ siteKey = file.result.keys.siteKey
       /\ fileCountKey = file.result.keys.fileCountKey
       /\ fileSizeKey = file.result.keys.fileSizeKey
       /\ lastModKey = file.result.keys.lastModKey
       /\ fileTypeKey = file.result.keys.fileTypeKey
       /\ fileNameKey = file.result.keys.fileNameKey
       /\ permKey = file.result.keys.permKey
  /\ fileTypeFilter \in fileTypeOptions
  /\ riskFilter \in { <<"A","l","l">> } \cup RiskLabels
  /\ categoryFilter \in { <<"A","l","l">> } \cup CategoryLabels
  /\ filter = [search |-> <<>>, sharing |-> <<"a","l","l">>]
  /\ sort = [key |-> "files", dir |-> "desc"]
  /\ stalePeriod = <<"6","m","o","n","t","h","s">>
  /\ gravityMetric = "files"
  /\ expandedSite = Null
  /\ download = Null
  /\ posted = <<>>
  /\ fn = "filteredRows" /\ arg = Null /\ res = Null /\ pc = "call"

CallFilteredRows ==
  /\ fn = "filteredRows"
  /\ pc = "call"
  /\ res' = filteredRows
  /\ pc' = "done"
  /\ UNCHANGED <<fn, arg>>
  /\ UNCHANGED dashboardVars

NextFilter == CallFilteredRows

SpecFilter == InitFilter /\ [][NextFilter]_vars

(***************************************************************************)
(* SpecParse: parseCSV applied to every text over ParseAlphabet of at most  *)
(* MaxLen characters.                                                       *)
(***************************************************************************)
ParseAlphabet == {"a", COMMA, Q, SP, NL, CR}

RECURSIVE StringsUpTo(_, _)
StringsUpTo(alphabet, n) ==
  IF n = 0 THEN {<<>>}
  ELSE LET shorter == StringsUpTo(alphabet, n - 1)
       IN shorter \cup {Append(s, c) : s \in {t \in shorter : Len(t) = n - 1}, c \in alphabet}

InitParse ==
  /\ DashboardInit
  /\ fn = "parseCSV"
  /\ arg \in StringsUpTo(ParseAlphabet, MaxLen)
  /\ res = Null
  /\ pc = "call"

CallParseCSV ==
  /\ fn = "parseCSV"
  /\ pc = "call"
  /\ res' = parseCSV(arg)
  /\ pc' = "done"
  /\ UNCHANGED <<fn, arg>>
  /\ UNCHANGED dashboardVars

NextParse == CallParseCSV

SpecParse == InitParse /\ [][NextParse]_vars

(***************************************************************************)
(* SpecColumns: updateColumnKeys applied to every sequence of at most       *)
(* MaxHeaders headers of HeaderPool.                                        *)
(***************************************************************************)
HeaderPool ==
  { <<"S","i","z","e">>, <<"F","i","l","e","S","i","z","e">>, <<"C","o","u","n","t">>, <<"N","a","m","e">>, <<"I","t","e","m"," ","N","a","m","e">>, <<"U","R","L">>, <<"T","y","p","e">>,
    <<"M","o","d","i","f","i","e","d">>, <<"G","r","o","u","p">>, <<"S","i","t","e">>, <<>> }

InitColumns ==
  /\ DashboardInit
  /\ fn = "updateColumnKeys"
  /\ arg \in SeqsUpTo(HeaderPool, MaxHeaders)
  /\ res = Null
  /\ pc = "call"

CallUpdateColumnKeys ==
  /\ fn = "updateColumnKeys"
  /\ pc = "call"
  /\ res' = updateColumnKeys(arg)
  /\ pc' = "done"
  /\ UNCHANGED <<fn, arg>>
  /\ UNCHANGED dashboardVars

NextColumns == CallUpdateColumnKeys

SpecColumns == InitColumns /\ [][NextColumns]_vars

(***************************************************************************)
(* SpecClassify: classifySharing applied to every text made of at most      *)
(* MaxPieces pieces of TextPieces.                                          *)
(***************************************************************************)
TextPieces ==
  { <<"e","v","e","r","y","o","n","e">>, <<"A","n","y","o","n","e">>, <<"a","n","o","n","y","m","o","u","s">>, <<"g","u","e","s","t">>, <<"E","x","t","e","r","n","a","l">>, <<"p","u","b","l","i","c">>,
    <<"n","e","w"," ","&"," ","e","x","i","s","t","i","n","g">>, <<"x">>, <<" ">>, <<"-">>, <<"_">> }

RECURSIVE TextsUpTo(_, _)
TextsUpTo(pool, n) ==
  IF n = 0 THEN {<<>>}
  ELSE {t \o x : t \in TextsUpTo(pool, n - 1), x \in pool \cup {<<>>}}

InitClassify ==
  /\ DashboardInit
  /\ fn = "classifySharing"
  /\ arg \in TextsUpTo(TextPieces, MaxPieces)
  /\ res = Null
  /\ pc = "call"

CallClassifySharing ==
  /\ fn = "classifySharing"
  /\ pc = "call"
  /\ res' = classifySharing(arg)
  /\ pc' = "done"
  /\ UNCHANGED <<fn, arg>>
  /\ UNCHANGED dashboardVars

NextClassify == CallClassifySharing

SpecClassify == InitClassify /\ [][NextClassify]_vars

(***************************************************************************)
(* SpecMessage: one message event delivered to a dashboard embedded by the  *)
(* host script, and the host's listener run on what the dashboard posted.   *)
(* arg is the scenario: the event's data and whether the host page          *)
(* configured an onDataChange function; res lists the payloads passed to it *)
(***************************************************************************)
PriorFiles == {f \in LoadedFiles : Len(f.result.rows) <= 1}

\* the listener of the host script on a message event, as the payloads it
\* passes to config.onDataChange
hostOnMessage(event, onDataChangeIsFunction) ==
  IF event.source # "iframe.contentWindow" THEN <<>>
  ELSE IF event.data.type = "AI_READINESS_DATA_CHANGE" /\ onDataChangeIsFunction
  THEN <<event.data.payload>>
  ELSE <<>>

InitMessage ==
  /\ \E f \in PriorFiles :
       /\ rows = f.result.rows
       /\ headers = f.result.keys.headers
       /\ siteKey = f.result.keys.siteKey
       /\ fileCountKey = f.result.keys.fileCountKey
       /\ fileSizeKey = f.result.keys.fileSizeKey
       /\ lastModKey = f.result.keys.lastModKey
       /\ fileTypeKey = f.result.keys.fileTypeKey
       /\ fileNameKey = f.result.keys.fileNameKey
       /\ permKey = f.result.keys.permKey
  /\ fileTypeFilter = <<"A","l","l">>
  /\ riskFilter = <<"A","l","l">>
  /\ categoryFilter = <<"A","l","l">>
  /\ filter = [search |-> <<>>, sharing |-> <<"a","l","l">>]
  /\ sort = [key |-> "files", dir |-> "desc"]
  /\ stalePeriod = <<"6","m","o","n","t","h","s">>
  /\ gravityMetric = "files"
  /\ expandedSite = Null
  /\ download = Null
  /\ posted = <<>>
  /\ fn = "handleMessage"
  /\ arg \in {[data |-> [type |-> type, csvText |-> t], onDataChange |-> b] :
                type \in {"LOAD_CSV_DATA", "RESIZE", ""},
                t \in {f.text : f \in LoadedFiles} \cup {NotText}, b \in BOOLEAN}
  /\ res = <<>>
  /\ pc = "call"

\* the dashboard's listener runs on the event
CallHandleMessage ==
  \E file \in LoadedFiles :
    /\ fn = "handleMessage"
    /\ pc = "call"
    /\ file.text = (IF parseCSVThrows(arg.data.csvText) THEN <<>> ELSE arg.data.csvText)
    /\ handleMessage(arg.data, file)
    /\ pc' = "done"
    /\ UNCHANGED <<fileTypeFilter, riskFilter, categoryFilter, filter, sort, stalePeriod, gravityMetric, expandedSite, download>>
    /\ UNCHANGED <<fn, arg, res>>

\* the host's listener runs on the message the dashboard posted
HostOnMessage ==
  /\ fn = "handleMessage"
  /\ pc = "done"
  /\ posted # <<>>
  /\ res' = res \o hostOnMessage([source |-> "iframe.contentWindow", data |-> Head(posted)],
                                 arg.onDataChange)
  /\ posted' = Tail(posted)
  /\ pc' = "forwarded"
  /\ UNCHANGED <<fileTypeFilter, riskFilter, categoryFilter, filter, sort, stalePeriod, gravityMetric, expandedSite, download>>
  /\ UNCHANGED datasetVars
  /\ UNCHANGED <<fn, arg>>

NextMessage == CallHandleMessage \/ HostOnMessage

SpecMessage == InitMessage /\ [][NextMessage]_vars

(***************************************************************************)
(* SpecLoads: every sequence of at most MaxLoads loads, each an upload or a *)
(* LOAD_CSV_DATA message, processed in order from the initial dashboard.    *)
(* arg is the sequence and res the number of its loads processed so far.    *)
(***************************************************************************)
LoadEvents == {[kind |-> k, text |-> f.text] : k \in {"file", "message"}, f \in PriorFiles}

InitLoads ==
  /\ DashboardInit
  /\ fn = "loads"
  /\ arg \in SeqsUpTo(LoadEvents, MaxLoads)
  /\ res = 0
  /\ pc = "call"

\* the next load of the sequence is an upload whose read completes
\* a variant that sets the file type select back to All
ProcessFileResetsType ==
  \E file \in LoadedFiles :
    /\ fn = "loads" /\ pc = "call" /\ res < Len(arg)
    /\ arg[res + 1].kind = "file"
    /\ file.text = arg[res + 1].text
    /\ readerOnLoad(file)
    /\ res' = res + 1
    /\ fileTypeFilter' = <<"A","l","l">>
    /\ UNCHANGED <<riskFilter, categoryFilter, filter, sort, stalePeriod, gravityMetric, expandedSite, download>>
    /\ UNCHANGED <<fn, arg, pc>>
ProcessFile ==
  \E file \in LoadedFiles :
    /\ fn = "loads" /\ pc = "call" /\ res < Len(arg)
    /\ arg[res + 1].kind = "file"
    /\ file.text = arg[res + 1].text
    /\ readerOnLoad(file)
    /\ res' = res + 1
    /\ UNCHANGED <<fileTypeFilter, riskFilter, categoryFilter, filter, sort, stalePeriod, gravityMetric, expandedSite, download>>
    /\ UNCHANGED <<fn, arg, pc>>

\* the next load of the sequence is a message that reaches the listener
ProcessMessage ==
  \E file \in LoadedFiles :
    /\ fn = "loads" /\ pc = "call" /\ res < Len(arg)
    /\ arg[res + 1].kind = "message"
    /\ file.text = arg[res + 1].text
    /\ handleMessage([type |-> "LOAD_CSV_DATA", csvText |-> file.text], file)
    /\ res' = res + 1
    /\ UNCHANGED <<fileTypeFilter, riskFilter, categoryFilter, filter, sort, stalePeriod, gravityMetric, expandedSite, download>>
    /\ UNCHANGED <<fn, arg, pc>>

NextLoads == ProcessFile \/ ProcessMessage

SpecLoads == InitLoads /\ [][NextLoads]_vars

(***************************************************************************)
(* SpecTable: the controls of the site table (search box, sharing select,   *)
(* sortable column headers, details button) on every dataset of TableTexts. *)
(***************************************************************************)
TableDataLines ==
  { <<"A",",","1","9","6","0","-","0","1","-","0","1",",","E","v","e","r","y","o","n","e">>, <<"B",",",",","g","u","e","s","t">>, <<"a","b",",","2","0","1","9","-","0","1","-","0","1",",","x">>, <<"C",",","n","/","a",",","E","v","e","r","y","o","n","e">> }
TableTexts ==
  {join(<< <<"S","i","t","e",",","M","o","d","i","f","i","e","d",",","D","e","s","c">> >> \o ls, <<NL>>) : ls \in SeqsUpTo(TableDataLines, MaxTableRows)}
TableFiles == {loadResult(t) : t \in TableTexts}

InitTable ==
  /\ \E d \in TableFiles :
       /\ rows = d.rows
       /\ headers = d.keys.headers
       /\ siteKey = d.keys.siteKey
       /\ fileCountKey = d.keys.fileCountKey
       /\ fileSizeKey = d.keys.fileSizeKey
       /\ lastModKey = d.keys.lastModKey
       /\ fileTypeKey = d.keys.fileTypeKey
       /\ fileNameKey = d.keys.fileNameKey
       /\ permKey = d.keys.permKey
  /\ fileTypeFilter = <<"A","l","l">>
  /\ riskFilter = <<"A","l","l">>
  /\ categoryFilter = <<"A","l","l">>
  /\ filter = [search |-> <<>>, sharing |-> <<"a","l","l">>]
  /\ sort = [key |-> "files", dir |-> "desc"]
  /\ stalePeriod = <<"6","m","o","n","t","h","s">>
  /\ gravityMetric = "files"
  /\ expandedSite = Null
  /\ download = Null
  /\ posted = <<>>
  /\ fn = "none" /\ arg = Null /\ res = Null /\ pc = "idle"

tableFrame == <<fileTypeFilter, riskFilter, categoryFilter, stalePeriod, gravityMetric,
                download, posted>>

\* onChange of the search box
SetSearch ==
  \E v \in { <<>>, <<"A"," ">> } :
    /\ filter' = [filter EXCEPT !.search = v]
    /\ UNCHANGED <<sort, expandedSite>>
    /\ UNCHANGED tableFrame
    /\ UNCHANGED datasetVars
    /\ UNCHANGED harnessVars

\* onChange of the sharing select
SetSharing ==
  \E v \in { <<"a","l","l">>, <<"O","n","l","y"," ","O","r","g">>, <<"E","v","e","r","y","o","n","e">>, <<"E","x","t","e","r","n","a","l"," ","(","N","e","w"," ","&"," ","E","x","i","s","t","i","n","g",")">>,
              <<"E","x","t","e","r","n","a","l"," ","(","A","n","o","n","y","m","o","u","s",")">> } :
    /\ filter' = [filter EXCEPT !.sharing = v]
    /\ UNCHANGED <<sort, expandedSite>>
    /\ UNCHANGED tableFrame
    /\ UNCHANGED datasetVars
    /\ UNCHANGED harnessVars

\* onClick of a sortable column header: the name column starts ascending,
\* the others descending, and a second click reverses
SortBy ==
  \E key \in {"name", "files", "kb", "last"} :
    /\ sort' = [key |-> key,
                dir |-> IF key = "name"
                        THEN (IF sort.key = "name" /\ sort.dir = "asc" THEN "desc" ELSE "asc")
                        ELSE (IF sort.key = key /\ sort.dir = "desc" THEN "asc" ELSE "desc")]
    /\ UNCHANGED <<filter, expandedSite>>
    /\ UNCHANGED tableFrame
    /\ UNCHANGED datasetVars
    /\ UNCHANGED harnessVars

\* onClick of the details button of a table row
ToggleExpandedSite ==
  \E k \in 1..Len(filteredSites) :
    /\ expandedSite' = IF expandedSite = filteredSites[k].siteName THEN Null
                       ELSE filteredSites[k].siteName
    /\ UNCHANGED <<filter, sort>>
    /\ UNCHANGED tableFrame
    /\ UNCHANGED datasetVars
    /\ UNCHANGED harnessVars

NextTable == SetSearch \/ SetSharing \/ SortBy \/ ToggleExpandedSite

SpecTable == InitTable /\ [][NextTable]_vars

(***************************************************************************)
(* SpecTop: the two metric buttons of the top sites chart on datasets of up *)
(* to MaxTopSites sites, one row each, with file counts at and around the   *)
(* risk bounds.                                                             *)
(***************************************************************************)
TopCounts == <<500, 10001, 1000, 501, 10000, 1001, 7, 499, 999, 9999, 20000, 0, 1000>>
\* the data line of site k: its name, its file count, its size
TopLine(k) ==
  <<LowerChars[k]>> \o <<",">> \o natToString(TopCounts[((k - 1) % Len(TopCounts)) + 1])
    \o <<",">> \o natToString(((k * 7) % 13) * 1000)

RECURSIVE TopLinesOf(_, _)
TopLinesOf(picked, k) ==
  IF k > MaxTopSites THEN <<>>
  ELSE (IF k \in picked THEN <<TopLine(k)>> ELSE <<>>) \o TopLinesOf(picked, k + 1)

TopTexts ==
  {join(<< <<"S","i","t","e",",","C","o","u","n","t",",","S","i","z","e">> >> \o TopLinesOf(picked, 1), <<NL>>) :
     picked \in {p \in SUBSET (1..MaxTopSites) :
                   Cardinality(p) <= 2 \/ Cardinality(p) >= MaxTopSites - 2}}
TopFiles == {loadResult(t) : t \in TopTexts}

InitTop ==
  /\ \E d \in TopFiles :
       /\ rows = d.rows
       /\ headers = d.keys.headers
       /\ siteKey = d.keys.siteKey
       /\ fileCountKey = d.keys.fileCountKey
       /\ fileSizeKey = d.keys.fileSizeKey
       /\ lastModKey = d.keys.lastModKey
       /\ fileTypeKey = d.keys.fileTypeKey
       /\ fileNameKey = d.keys.fileNameKey
       /\ permKey = d.keys.permKey
  /\ fileTypeFilter = <<"A","l","l">>
  /\ riskFilter = <<"A","l","l">>
  /\ categoryFilter = <<"A","l","l">>
  /\ filter = [search |-> <<>>, sharing |-> <<"a","l","l">>]
  /\ sort = [key |-> "files", dir |-> "desc"]
  /\ stalePeriod = <<"6","m","o","n","t","h","s">>
  /\ gravityMetric = "files"
  /\ expandedSite = Null
  /\ download = Null
  /\ posted = <<>>
  /\ fn = "none" /\ arg = Null /\ res = Null /\ pc = "idle"

\* onClick of Sort by Files and of Sort by Size
SetGravityMetric ==
  \E m \in {"files", "size"} :
    /\ gravityMetric' = m
    /\ UNCHANGED <<fileTypeFilter, riskFilter, categoryFilter, filter, sort, stalePeriod,
                   expandedSite, download, posted>>
    /\ UNCHANGED datasetVars
    /\ UNCHANGED harnessVars

NextTop == SetGravityMetric

SpecTop == InitTop /\ [][NextTop]_vars

(***************************************************************************)
(* SpecTypes: the file type and risk selects on datasets of up to           *)
(* MaxTypeRows rows over twelve extensions.                                 *)
(***************************************************************************)
TypeExtensions ==
  << <<"p","d","f">>, <<"D","O","C","X">>, <<"x","l","s","x">>, <<"_","_","p","r","o","t","o","_","_">>, <<"7","z">>, <<"t","x","t">>, <<"c","s","v">>, <<"j","p","g">>, <<"p","n","g">>, <<"z","i","p">>,
     <<"m","p","4">>, <<"p","p","t","x">>, <<"p","d","f">>, <<"d","o","c","x">> >>
TypeGroups ==
  << <<"E","v","e","r","y","o","n","e">>, <<"E","v","e","r","y","o","n","e">>, <<"E","v","e","r","y","o","n","e">>, <<"E","v","e","r","y","o","n","e">>, <<"o","w","n","e","r">>,
     <<"E","v","e","r","y","o","n","e">>, <<"E","v","e","r","y","o","n","e">>, <<"E","v","e","r","y","o","n","e">>, <<"E","v","e","r","y","o","n","e">>, <<"v","i","s","i","t","o","r">> >>
\* the data line of row k: its site, its file name, its group
TypeLine(k) ==
  <<"A",",","f">> \o natToString(k) \o <<".">> \o TypeExtensions[((k - 1) % Len(TypeExtensions)) + 1]
    \o <<",">> \o TypeGroups[((k - 1) % Len(TypeGroups)) + 1]

RECURSIVE TypeLinesOf(_, _)
TypeLinesOf(picked, k) ==
  IF k > MaxTypeRows THEN <<>>
  ELSE (IF k \in picked THEN <<TypeLine(k)>> ELSE <<>>) \o TypeLinesOf(picked, k + 1)

TypeTexts ==
  {join(<< <<"S","i","t","e",",","N","a","m","e",",","G","r","o","u","p">> >> \o TypeLinesOf(picked, 1), <<NL>>) :
     picked \in {p \in SUBSET (1..MaxTypeRows) :
                   Cardinality(p) <= 2 \/ Cardinality(p) >= MaxTypeRows - 1}}
TypeFiles == {loadResult(t) : t \in TypeTexts}

InitTypes ==
  /\ \E d \in TypeFiles :
       /\ rows = d.rows
       /\ headers = d.keys.headers
       /\ siteKey = d.keys.siteKey
       /\ fileCountKey = d.keys.fileCountKey
       /\ fileSizeKey = d.keys.fileSizeKey
       /\ lastModKey = d.keys.lastModKey
       /\ fileTypeKey = d.keys.fileTypeKey
       /\ fileNameKey = d.keys.fileNameKey
       /\ permKey = d.keys.permKey
  /\ fileTypeFilter = <<"A","l","l">>
  /\ riskFilter = <<"A","l","l">>
  /\ categoryFilter = <<"A","l","l">>
  /\ filter = [search |-> <<>>, sharing |-> <<"a","l","l">>]
  /\ sort = [key |-> "files", dir |-> "desc"]
  /\ stalePeriod = <<"6","m","o","n","t","h","s">>
  /\ gravityMetric = "files"
  /\ expandedSite = Null
  /\ download = Null
  /\ posted = <<>>
  /\ fn = "none" /\ arg = Null /\ res = Null /\ pc = "idle"

NextTypes == SetFileTypeFilter \/ SetRiskFilter

SpecTypes == InitTypes /\ [][NextTypes]_vars

(***************************************************************************)
(* SpecStale: the stale files view of every dataset of StaleTexts under     *)
(* every period of the select and every clock reading of NowValues.         *)
(***************************************************************************)
StaleHeaderLines == { <<"S","i","t","e",",","M","o","d","i","f","i","e","d",",","S","i","z","e">>, <<"S","i","t","e",",","N","a","m","e",",","S","i","z","e">> }
StaleDataLines ==
  { <<"A",",","2","0","2","4","-","1","0","-","1","5",",","4">>, <<"A",",","2","0","2","4","-","0","5","-","1","5",",","1","0">>, <<"A",",","2","0","2","4","-","0","7","-","1","5",",","1">>, <<"B",",","2","0","1","9","-","0","1","-","0","1",",","3">>,
    <<"B",",","n","/","a",",","7">>, <<"B",",",",","5">>, <<"A",",","2","0","2","0","-","0","1","-","0","1",",","1","0","0">>, <<"A",",","2","0","2","3","-","0","6","-","0","1",",","5","0">> }
StaleTexts ==
  {join(<<h>> \o ls, <<NL>>) : h \in StaleHeaderLines, ls \in SeqsUpTo(StaleDataLines, MaxStaleRows)}
StaleFiles == {loadResult(t) : t \in StaleTexts}

\* readings of new Date(): a date and the milliseconds since its midnight
NowValues ==
  { [date |-> <<2025, 1, 15>>, ms |-> 0], [date |-> <<2025, 1, 15>>, ms |-> 1],
    [date |-> <<2024, 8, 31>>, ms |-> 1], [date |-> <<2024, 2, 29>>, ms |-> 1] }

InitStale ==
  /\ \E d \in StaleFiles :
       /\ rows = d.rows
       /\ headers = d.keys.headers
       /\ siteKey = d.keys.siteKey
       /\ fileCountKey = d.keys.fileCountKey
       /\ fileSizeKey = d.keys.fileSizeKey
       /\ lastModKey = d.keys.lastModKey
       /\ fileTypeKey = d.keys.fileTypeKey
       /\ fileNameKey = d.keys.fileNameKey
       /\ permKey = d.keys.permKey
  /\ fileTypeFilter = <<"A","l","l">>
  /\ riskFilter = <<"A","l","l">>
  /\ categoryFilter = <<"A","l","l">>
  /\ filter = [search |-> <<>>, sharing |-> <<"a","l","l">>]
  /\ sort = [key |-> "files", dir |-> "desc"]
  /\ stalePeriod = <<"6","m","o","n","t","h","s">>
  /\ gravityMetric = "files"
  /\ expandedSite = Null
  /\ download = Null
  /\ posted = <<>>
  /\ fn = "staleSitesList" /\ arg = Null /\ res = Null /\ pc = "call"

\* onChange of the stale period select
SetStalePeriod ==
  \E v \in { <<"6","m","o","n","t","h","s">>, <<"1","2","m","o","n","t","h","s">>, <<"2","y","e","a","r","s">>, <<"5","y","e","a","r","s">> } :
    /\ pc = "call"
    /\ stalePeriod' = v
    /\ UNCHANGED <<fileTypeFilter, riskFilter, categoryFilter, filter, sort, gravityMetric,
                   expandedSite, download, posted>>
    /\ UNCHANGED datasetVars
    /\ UNCHANGED harnessVars

\* a render of the stale files view at the clock reading now
CallStaleSitesList ==
  \E now \in NowValues :
    /\ fn = "staleSitesList"
    /\ pc = "call"
    /\ arg' = now
    /\ res' = staleSitesList(now)
    /\ pc' = "done"
    /\ UNCHANGED fn
    /\ UNCHANGED dashboardVars

NextStale == SetStalePeriod \/ CallStaleSitesList

SpecStale == InitStale /\ [][NextStale]_vars

(***************************************************************************)
(* SpecOrder: the risk and stale period selects on dated datasets of up to  *)
(* MaxOrderRows rows over three sites.                                      *)
(***************************************************************************)
OrderDataLines ==
  { <<"A",",","2","0","2","0","-","0","1","-","0","1",",","E","v","e","r","y","o","n","e">>, <<"A",",","2","0","2","3","-","0","6","-","0","1",",","o","w","n","e","r">>, <<"B",",","2","0","1","9","-","0","1","-","0","1",",","o","w","n","e","r">>,
    <<"B",",","2","0","2","4","-","1","0","-","1","5",",","E","v","e","r","y","o","n","e">>, <<"C",",","2","0","1","8","-","0","5","-","0","5",",","v","i","s","i","t","o","r">>, <<"C",",","n","/","a",",","o","w","n","e","r">>, <<"A",",","2","0","2","1","-","0","3","-","0","3",",","v","i","s","i","t","o","r">> }
OrderTexts ==
  {join(<< <<"S","i","t","e",",","M","o","d","i","f","i","e","d",",","G","r","o","u","p">> >> \o ls, <<NL>>) : ls \in SeqsUpTo(OrderDataLines, MaxOrderRows)}
OrderFiles == {loadResult(t) : t \in OrderTexts}

InitOrder ==
  /\ \E d \in OrderFiles :
       /\ rows = d.rows
       /\ headers = d.keys.headers
       /\ siteKey = d.keys.siteKey
       /\ fileCountKey = d.keys.fileCountKey
       /\ fileSizeKey = d.keys.fileSizeKey
       /\ lastModKey = d.keys.lastModKey
       /\ fileTypeKey = d.keys.fileTypeKey
       /\ fileNameKey = d.keys.fileNameKey
       /\ permKey = d.keys.permKey
  /\ fileTypeFilter = <<"A","l","l">>
  /\ riskFilter = <<"A","l","l">>
  /\ categoryFilter = <<"A","l","l">>
  /\ filter = [search |-> <<>>, sharing |-> <<"a","l","l">>]
  /\ sort = [key |-> "files", dir |-> "desc"]
  /\ stalePeriod = <<"6","m","o","n","t","h","s">>
  /\ gravityMetric = "files"
  /\ expandedSite = Null
  /\ download = Null
  /\ posted = <<>>
  /\ fn = "staleSitesList" /\ arg = Null /\ res = Null /\ pc = "call"

NextOrder == SetRiskFilter \/ SetStalePeriod

SpecOrder == InitOrder /\ [][NextOrder]_vars

(***************************************************************************)
(* SpecSharing: the risk select on datasets of up to MaxSharingRows rows    *)
(* whose group column holds the words of the sharing classes.               *)
(***************************************************************************)
SharingDataLines ==
  { <<"A",",","a","n","o","n">>, <<"A",",","G","u","e","s","t">>, <<"B",",","e","x","t","e","r","n","a","l"," ","u","s","e","r","s">>, <<"B",",","A","n","y","o","n","e"," ","w","i","t","h"," ","t","h","e"," ","l","i","n","k">>, <<"A",",","E","v","e","r","y","o","n","e">>,
    <<"B",",","a","n","o","n","y","m","o","u","s">>, <<"B",",","x">>, <<"A",",","A","n","o","n"," ","l","i","n","k">>, <<"B",",","p","u","b","l","i","c">>, <<"A",",","a","n","o","n","y","m","i","z","e","d">> }
SharingTexts ==
  {join(<< <<"S","i","t","e",",","G","r","o","u","p">> >> \o ls, <<NL>>) : ls \in SeqsUpTo(SharingDataLines, MaxSharingRows)}
SharingFiles == {loadResult(t) : t \in SharingTexts}

InitSharing ==
  /\ \E d \in SharingFiles :
       /\ rows = d.rows
       /\ headers = d.keys.headers
       /\ siteKey = d.keys.siteKey
       /\ fileCountKey = d.keys.fileCountKey
       /\ fileSizeKey = d.keys.fileSizeKey
       /\ lastModKey = d.keys.lastModKey
       /\ fileTypeKey = d.keys.fileTypeKey
       /\ fileNameKey = d.keys.fileNameKey
       /\ permKey = d.keys.permKey
  /\ fileTypeFilter = <<"A","l","l">>
  /\ riskFilter = <<"A","l","l">>
  /\ categoryFilter = <<"A","l","l">>
  /\ filter = [search |-> <<>>, sharing |-> <<"a","l","l">>]
  /\ sort = [key |-> "files", dir |-> "desc"]
  /\ stalePeriod = <<"6","m","o","n","t","h","s">>
  /\ gravityMetric = "files"
  /\ expandedSite = Null
  /\ download = Null
  /\ posted = <<>>
  /\ fn = "none" /\ arg = Null /\ res = Null /\ pc = "idle"

NextSharing == SetRiskFilter

SpecSharing == InitSharing /\ [][NextSharing]_vars

(***************************************************************************)
(* SpecUpload: up to MaxUploads files are chosen one after the other and    *)
(* their reads complete in any order.  arg lists the files chosen so far,   *)
(* res is the set of the positions in arg whose FileReader has not fired    *)
(* its load event yet, and pc tells whether a file was chosen while a read  *)
(* was pending.                                                             *)
(***************************************************************************)
InitUpload ==
  /\ DashboardInit
  /\ fn = "onFile"
  /\ arg = <<>>
  /\ res = {}
  /\ pc = "idle"

\* onFile(file): nothing without a file; otherwise a new FileReader starts
\* reading the file
OnFile ==
  \E chosen \in BOOLEAN, file \in PriorFiles :
    /\ fn = "onFile"
    /\ Len(arg) < MaxUploads
    /\ IF ~chosen
       THEN UNCHANGED <<arg, res, pc>>
       ELSE /\ arg' = Append(arg, file)
            /\ res' = res \cup {Len(arg) + 1}
            /\ pc' = IF res # {} THEN "overlapped" ELSE pc
    /\ UNCHANGED fn
    /\ UNCHANGED dashboardVars

\* the load event of one of the pending FileReaders
ReaderOnLoadPending ==
  \E i \in res :
    /\ fn = "onFile"
    /\ readerOnLoad(arg[i])
    /\ res' = res \ {i}
    /\ download' = Null
    /\ UNCHANGED <<fileTypeFilter, riskFilter, categoryFilter, filter, sort, stalePeriod, gravityMetric, expandedSite>>
    /\ UNCHANGED <<fn, arg, pc>>

NextUpload == OnFile \/ ReaderOnLoadPending

SpecUpload == InitUpload /\ [][NextUpload]_vars

(***************************************************************************)
(* SpecSelections: one load, by upload or by message, after the user has    *)
(* made selections on the dataset of one pdf file of site A.  arg and res   *)
(* are those of SpecLoads.                                                  *)
(***************************************************************************)
SelectedText == <<"S","i","t","e",",","N","a","m","e",",","D","e","s","c","\n","A",",","x",".","p","d","f",",","o","w","n","e","r">>

\* the other selections, as they are after construction and after a change
\* of each
OtherSelections ==
  { [filter |-> [search |-> <<>>, sharing |-> <<"a","l","l">>], sort |-> [key |-> "files", dir |-> "desc"],
     stalePeriod |-> <<"6","m","o","n","t","h","s">>, gravityMetric |-> "files", expandedSite |-> Null],
    [filter |-> [search |-> <<"A"," ">>, sharing |-> <<"O","n","l","y"," ","O","r","g">>], sort |-> [key |-> "name", dir |-> "asc"],
     stalePeriod |-> <<"2","y","e","a","r","s">>, gravityMetric |-> "size", expandedSite |-> <<"A">>] }

InitSelections ==
  /\ rows = loadResult(SelectedText).rows
  /\ headers = loadResult(SelectedText).keys.headers
  /\ siteKey = loadResult(SelectedText).keys.siteKey
  /\ fileCountKey = loadResult(SelectedText).keys.fileCountKey
  /\ fileSizeKey = loadResult(SelectedText).keys.fileSizeKey
  /\ lastModKey = loadResult(SelectedText).keys.lastModKey
  /\ fileTypeKey = loadResult(SelectedText).keys.fileTypeKey
  /\ fileNameKey = loadResult(SelectedText).keys.fileNameKey
  /\ permKey = loadResult(SelectedText).keys.permKey
  /\ fileTypeFilter \in fileTypeOptions
  /\ riskFilter \in { <<"A","l","l">>, <<"L","o","w">> }
  /\ categoryFilter \in { <<"A","l","l">>, <<"B","u","s","i","n","e","s","s">> }
  /\ \E o \in OtherSelections :
       /\ filter = o.filter
       /\ sort = o.sort
       /\ stalePeriod = o.stalePeriod
       /\ gravityMetric = o.gravityMetric
       /\ expandedSite = o.expandedSite
  /\ download = Null
  /\ posted = <<>>
  /\ fn = "loads"
  /\ arg \in SeqsUpTo(LoadEvents, 1)
  /\ res = 0
  /\ pc = "call"

SpecSelections == InitSelections /\ [][NextLoads]_vars

(***************************************************************************)
(* SpecSender: one message event reaches the dashboard's listener.  arg is  *)
(* the event, with its source window and origin, and the isEmbedded prop of *)
(* the component.                                                           *)
(***************************************************************************)
SenderTexts == { <<>>, <<"S","i","t","e",",","N","a","m","e",",","D","e","s","c">>, <<"S","i","t","e",",","N","a","m","e",",","D","e","s","c","\n","A",",","x",".","p","d","f",",","o","w","n","e","r">>, <<"S","i","t","e",",","C","o","u","n","t",",","S","i","z","e","\n","B",",","2",",","G","u","e","s","t">> }
SenderFiles == {f \in LoadedFiles : f.text \in SenderTexts}

\* a variant that ignores events whose source is not the parent window
handleMessageEventFromParent(event, isEmbedded, file) ==
  IF event.source = "window.parent"
  THEN handleMessage(event.data, file)
  ELSE /\ UNCHANGED datasetVars
       /\ posted' = <<>>
\* handleMessage on the event: const data = event.data is its only read of
\* the event, and isEmbedded is not read in it
handleMessageEvent(event, isEmbedded, file) == handleMessage(event.data, file)

InitSender ==
  /\ \E f \in SenderFiles :
       /\ rows = f.result.rows
       /\ headers = f.result.keys.headers
       /\ siteKey = f.result.keys.siteKey
       /\ fileCountKey = f.result.keys.fileCountKey
       /\ fileSizeKey = f.result.keys.fileSizeKey
       /\ lastModKey = f.result.keys.lastModKey
       /\ fileTypeKey = f.result.keys.fileTypeKey
       /\ fileNameKey = f.result.keys.fileNameKey
       /\ permKey = f.result.keys.permKey
  /\ fileTypeFilter = <<"A","l","l">>
  /\ riskFilter = <<"A","l","l">>
  /\ categoryFilter = <<"A","l","l">>
  /\ filter = [search |-> <<>>, sharing |-> <<"a","l","l">>]
  /\ sort = [key |-> "files", dir |-> "desc"]
  /\ stalePeriod = <<"6","m","o","n","t","h","s">>
  /\ gravityMetric = "files"
  /\ expandedSite = Null
  /\ download = Null
  /\ posted = <<>>
  /\ fn = "handleMessageEvent"
  /\ arg \in {[event |-> [source |-> source, origin |-> origin,
                          data |-> [type |-> type, csvText |-> t]],
                isEmbedded |-> b] :
                source \in {"window.parent", "another window"},
                origin \in {"https://host.example", "https://other.example"},
                type \in {"LOAD_CSV_DATA", "RESIZE", ""},
                t \in SenderTexts, b \in BOOLEAN}
  /\ res = Null
  /\ pc = "call"

\* the dashboard's listener runs on the event
CallHandleMessageEvent ==
  \E file \in SenderFiles :
    /\ fn = "handleMessageEvent"
    /\ pc = "call"
    /\ file.text = arg.event.data.csvText
    /\ handleMessageEvent(arg.event, arg.isEmbedded, file)
    /\ pc' = "done"
    /\ UNCHANGED <<fileTypeFilter, riskFilter, categoryFilter, filter, sort, stalePeriod, gravityMetric, expandedSite, download>>
    /\ UNCHANGED <<fn, arg, res>>

NextSender == CallHandleMessageEvent

SpecSender == InitSender /\ [][NextSender]_vars

(***************************************************************************)
(* SpecRisk: getRiskProfile applied to null, undefined and every text made  *)
(* of at most MaxPieces pieces of RiskPieces.                               *)
(***************************************************************************)
RiskPieces ==
  { <<"E","v","e","r","y","o","n","e">>, <<"e","v","e","r","y","o","n","e"," ","e","x","c","e","p","t"," ","e","x","t","e","r","n","a","l"," ","u","s","e","r","s">>, <<"V","i","s","i","t","o","r","s">>, <<"e","x","c","e","l"," ","s","e","r","v","i","c","e","s"," ","v","i","e","w","e","r","s">>,
    <<"p","o","r","t","f","o","l","i","o"," ","v","i","e","w","e","r","s">>, <<"O","w","n","e","r">>, <<"m","e","m","b","e","r">>, <<"a","d","m","i","n","i","s","t","r","a","t","o","r">>, <<"p","r","o","j","e","c","t"," ","m","a","n","a","g","e","r">>,
    <<"t","e","a","m"," ","l","e","a","d">>, <<"r","e","s","o","u","r","c","e"," ","m","a","n","a","g","e","r">>, <<"x">>, <<" ">>, <<"_">> }

InitRisk ==
  /\ DashboardInit
  /\ fn = "getRiskProfile"
  /\ arg \in TextsUpTo(RiskPieces, MaxPieces) \cup {Null, Undefined}
  /\ res = Null
  /\ pc = "call"

CallGetRiskProfile ==
  /\ fn = "getRiskProfile"
  /\ pc = "call"
  /\ res' = getRiskProfile(arg)
  /\ pc' = "done"
  /\ UNCHANGED <<fn, arg>>
  /\ UNCHANGED dashboardVars

NextRisk == CallGetRiskProfile

SpecRisk == InitRisk /\ [][NextRisk]_vars

(***************************************************************************)
(* SpecExtension: getFileExtension applied to a row with a Type and a Name  *)
(* value, under every combination of resolved fileType and fileName roles.  *)
(* Name values are made of at most MaxExtPieces pieces of ExtPieces.        *)
(***************************************************************************)
ExtPieces == { <<"a">>, <<"P","D","F">>, <<".">>, <<"/">>, <<"?">>, <<"#">>, <<" ">>, <<"a","b","c","d","e","f","g","h","i">> }
NameValues ==
  TextsUpTo(ExtPieces, MaxExtPieces)
    \cup { <<"r","e","p","o","r","t",".","P","D","F","?","v","=","2">>, <<"f","o","l","d","e","r","/","n","o","e","x","t">>, <<"h","t","t","p","s",":","/","/","x","/","y","/","r","e","p","o","r","t",".","P","D","F","?","v","=","2">> }
TypeValues == { <<>>, <<".","D","o","c","x">>, <<" ">>, <<"a","b","c","d","e","f","g","h","i","j">> }

InitExtension ==
  /\ rows = <<>>
  /\ headers = << <<"T","y","p","e">>, <<"N","a","m","e">> >>
  /\ siteKey = <<"T","y","p","e">>
  /\ fileCountKey = Null
  /\ fileSizeKey = Null
  /\ lastModKey = Null
  /\ fileTypeKey \in {Null, <<"T","y","p","e">>}
  /\ fileNameKey \in {Null, <<"N","a","m","e">>}
  /\ permKey = Null
  /\ fileTypeFilter = <<"A","l","l">>
  /\ riskFilter = <<"A","l","l">>
  /\ categoryFilter = <<"A","l","l">>
  /\ filter = [search |-> <<>>, sharing |-> <<"a","l","l">>]
  /\ sort = [key |-> "files", dir |-> "desc"]
  /\ stalePeriod = <<"6","m","o","n","t","h","s">>
  /\ gravityMetric = "files"
  /\ expandedSite = Null
  /\ download = Null
  /\ posted = <<>>
  /\ fn = "getFileExtension"
  /\ arg \in {<< << <<"T","y","p","e">>, tv >>, << <<"N","a","m","e">>, nv >> >> : tv \in TypeValues, nv \in NameValues}
  /\ res = Null
  /\ pc = "call"

CallGetFileExtension ==
  /\ fn = "getFileExtension"
  /\ pc = "call"
  /\ res' = getFileExtension(arg)
  /\ pc' = "done"
  /\ UNCHANGED <<fn, arg>>
  /\ UNCHANGED dashboardVars

NextExtension == CallGetFileExtension

SpecExtension == InitExtension /\ [][NextExtension]_vars

(***************************************************************************)
(* Reference notions used to state the parser claims.  They are written     *)
(* from the text of the input, not from the parser's loops.                 *)
(***************************************************************************)
IsString(s) == \A i \in 1..Len(s) : s[i] \in ParseAlphabet

\* the places where a line starts, and where the line starting at a ends
LineStarts(text) == {1} \cup {i + 1 : i \in {j \in 1..Len(text) : text[j] = NL}}
LineEnd(text, a) ==
  IF \E j \in a..Len(text) : text[j] = NL
  THEN (CHOOSE j \in a..Len(text) : text[j] = NL /\ \A k \in a..(j - 1) : text[k] # NL) - 1
  ELSE Len(text)
NonBlankStarts(text) ==
  {a \in LineStarts(text) : \E j \in a..LineEnd(text, a) : ~isSpace(text[j])}
\* the k-th non-blank line, without its surrounding white space
NonBlankLine(text, k) ==
  LET a == CHOOSE x \in NonBlankStarts(text) :
             Cardinality({y \in NonBlankStarts(text) : y < x}) = k - 1
  IN trim(SubSeq(text, a, LineEnd(text, a)))

CountOf(s, c) == Cardinality({i \in 1..Len(s) : s[i] = c})

\* a line of well-formed fields read the way the CSV format defines them:
\* a field is either free of quotes, or a quote, a body in which every quote
\* is doubled, and a quote
RECURSIVE RefFields(_, _, _, _, _)
RefFields(line, i, mode, cur, acc) ==
  IF i > Len(line)
  THEN [ok |-> mode # "quoted", fields |-> Append(acc, cur)]
  ELSE LET c == line[i] IN
    CASE mode = "start" ->
           IF c = Q THEN RefFields(line, i + 1, "quoted", <<>>, acc)
           ELSE IF c = COMMA THEN RefFields(line, i + 1, "start", <<>>, Append(acc, <<>>))
           ELSE RefFields(line, i + 1, "plain", <<c>>, acc)
      [] mode = "plain" ->
           IF c = Q THEN [ok |-> FALSE, fields |-> acc]
           ELSE IF c = COMMA THEN RefFields(line, i + 1, "start", <<>>, Append(acc, cur))
           ELSE RefFields(line, i + 1, "plain", Append(cur, c), acc)
      [] mode = "quoted" ->
           IF c = Q
           THEN IF i + 1 <= Len(line) /\ line[i + 1] = Q
                THEN RefFields(line, i + 2, "quoted", Append(cur, Q), acc)
                ELSE RefFields(line, i + 1, "closed", cur, acc)
           ELSE RefFields(line, i + 1, "quoted", Append(cur, c), acc)
      [] OTHER ->
           IF c = COMMA THEN RefFields(line, i + 1, "start", <<>>, Append(acc, cur))
           ELSE [ok |-> FALSE, fields |-> acc]

WellFormed(line) == RefFields(line, 1, "start", <<>>, <<>>)

(***************************************************************************)
(* Claims about parseCSV, checked under SpecParse.                          *)
(***************************************************************************)

\* C4: when parseCSV splits a line into fields, a comma inside a quoted field
\* does not split it, a doubled quote inside a quoted field yields exactly one
\* literal quote wherever it occurs (first and last character included), and
\* the delimiting quotes are not part of the value: the header fields of a
\* well-formed header line are its fields as the CSV format defines them.
C4_QuotedFieldsDecoded ==
  (pc = "done" /\ fn = "parseCSV" /\ Cardinality(NonBlankStarts(arg)) = 1) =>
    LET ref == WellFormed(NonBlankLine(arg, 1))
    IN ref.ok => res.fields = [k \in 1..Len(ref.fields) |-> trim(ref.fields[k])]

\* C5: every row produced by parseCSV maps exactly the header names to string
\* values; a data line with fewer fields than headers gets the empty string
\* for each missing trailing header and fields beyond the header count never
\* appear in the row.
C5_RowsMapExactlyHeaders ==
  (pc = "done" /\ fn = "parseCSV") =>
    \A k \in 1..Len(res.data) :
      LET row == res.data[k]
          vals == splitLine(NonBlankLine(arg, k + 1))
      IN /\ Range(objKeys(row)) = Range(res.fields)
         /\ Len(row) = Cardinality(Range(res.fields))
         /\ \A i \in 1..Len(row) : IsString(row[i][2])
         /\ \A i \in 1..Len(res.fields) :
              (\A j \in (i + 1)..Len(res.fields) : res.fields[j] # res.fields[i]) =>
                objGet(row, res.fields[i]) = IF i <= Len(vals) THEN vals[i] ELSE <<>>

\* C5 witness: a parsed data line with fewer fields than headers, whose
\* missing trailing header reads as the empty string.
C5_Witness ==
  /\ pc = "done" /\ fn = "parseCSV"
  /\ Len(res.data) = 1
  /\ res.fields = << <<"a">>, <<>> >>
  /\ Len(splitLine(NonBlankLine(arg, 2))) = 1
  /\ res.data[1] = << << <<"a">>, <<"a">> >>, << <<>>, <<>> >> >>

\* C6 as stated: the row count equals the number of non-blank lines minus one.
C6_RowCountIsNonBlankMinusOne ==
  (pc = "done" /\ fn = "parseCSV") =>
    Len(res.data) = Cardinality(NonBlankStarts(arg)) - 1

\* C6 amended: parseCSV skips every blank line, takes the first non-blank line
\* as the header line and produces one row per later non-blank line, in input
\* order; the row count is the number of non-blank lines minus one when there
\* is a non-blank line, and zero (with no headers) when there is none.
C6_HeaderThenOneRowPerLine ==
  (pc = "done" /\ fn = "parseCSV") =>
    LET nb == Cardinality(NonBlankStarts(arg))
    IN IF nb = 0
       THEN res.data = <<>> /\ res.fields = <<>>
       ELSE /\ res.fields = splitLine(NonBlankLine(arg, 1))
            /\ Len(res.data) = nb - 1
            /\ \A k \in 1..(nb - 1) :
                 res.data[k] = makeRow(res.fields, splitLine(NonBlankLine(arg, k + 1)))

\* C6 witness: a blank line before the header and another between the header
\* and the only data line.
C6_Witness ==
  /\ pc = "done" /\ fn = "parseCSV"
  /\ arg = << NL, "a", NL, NL, "a" >>
  /\ Len(res.data) = 1

\* C7: parseCSV yields a (headers, rows) result of strings for every input
\* text, and a field whose opening quote is never closed absorbs the rest of
\* the line, commas included: on a header line whose last quote opens a field
\* at its start, the fields before it stay as they are and everything after
\* the quote is the single last field.
C7_UnclosedQuoteAbsorbsRest ==
  (pc = "done" /\ fn = "parseCSV") =>
    /\ \A i \in 1..Len(res.fields) : IsString(res.fields[i])
    /\ \A k \in 1..Len(res.data) : \A i \in 1..Len(res.data[k]) :
         IsString(res.data[k][i][1]) /\ IsString(res.data[k][i][2])
    /\ Cardinality(NonBlankStarts(arg)) >= 1 =>
         LET line == NonBlankLine(arg, 1) IN
         \A p \in 1..Len(line) :
           ( /\ line[p] = Q
             /\ CountOf(line, Q) = 1
             /\ (p = 1 \/ line[p - 1] = COMMA) ) =>
               /\ Len(res.fields) = CountOf(SubSeq(line, 1, p - 1), COMMA) + 1
               /\ res.fields[Len(res.fields)] = trim(SubSeq(line, p + 1, Len(line)))

\* C7 witness: a header line with an unclosed quote followed by a comma.
C7_Witness ==
  /\ pc = "done" /\ fn = "parseCSV"
  /\ arg = << Q, "a", COMMA, "a" >>
  /\ res.fields = << <<"a",",","a">> >>

(***************************************************************************)
(* Claims about column inference, checked under SpecColumns.                *)
(***************************************************************************)
\* the keyword lists of the six roles other than site, by result field
RoleKeywords ==
  [fileCountKey |-> fileCountKeywords, fileSizeKey |-> fileSizeKeywords,
   lastModKey |-> lastModKeywords, fileTypeKey |-> fileTypeKeywords,
   fileNameKey |-> fileNameKeywords, permKey |-> permKeywords]

Min(S) == CHOOSE x \in S : \A y \in S : x <= y

HeaderHasKeyword(h, k) == includes(toLowerCase(h), k)
HeaderMatchesRole(h, role) ==
  \E j \in 1..Len(RoleKeywords[role]) : HeaderHasKeyword(h, RoleKeywords[role][j])

\* C10 as stated: each role other than site is the first header, in header
\* order, that contains any keyword of the role's list, and is unresolved
\* when no header contains one.
C10_FirstHeaderWithAnyKeyword ==
  (pc = "done" /\ fn = "updateColumnKeys") =>
    \A role \in DOMAIN RoleKeywords :
      LET M == {i \in 1..Len(arg) : HeaderMatchesRole(arg[i], role)}
      IN res[role] = IF M = {} THEN Null ELSE arg[Min(M)]

\* C10 amended: each role other than site is resolved by the earliest keyword
\* of its list that some header contains, to the first header, in header
\* order, containing that keyword; it is unresolved (null, no error) exactly
\* when no header contains any keyword of the list.
C10_FirstHeaderOfEarliestKeyword ==
  (pc = "done" /\ fn = "updateColumnKeys") =>
    \A role \in DOMAIN RoleKeywords :
      LET kws == RoleKeywords[role]
          K == {j \in 1..Len(kws) : \E i \in 1..Len(arg) : HeaderHasKeyword(arg[i], kws[j])}
      IN IF K = {} THEN res[role] = Null
         ELSE res[role] = arg[Min({i \in 1..Len(arg) : HeaderHasKeyword(arg[i], kws[Min(K)])})]

\* C10 witness: Size precedes FileSize; the fileSize role is FileSize, the
\* header of the earlier keyword, and no header resolves the permissions role.
C10_Witness ==
  /\ pc = "done" /\ fn = "updateColumnKeys"
  /\ arg = << <<"S","i","z","e">>, <<"F","i","l","e","S","i","z","e">>, <<>> >>
  /\ res.fileSizeKey = <<"F","i","l","e","S","i","z","e">>
  /\ res.permKey = Null

\* C11: the keyword order of a role is a priority order: a resolved role is a
\* header containing some keyword of the list such that no header contains
\* an earlier keyword of the list and no earlier header contains that keyword.
C11_KeywordOrderIsPriority ==
  (pc = "done" /\ fn = "updateColumnKeys") =>
    \A role \in DOMAIN RoleKeywords :
      res[role] # Null =>
        \E j \in 1..Len(RoleKeywords[role]), i \in 1..Len(arg) :
          /\ arg[i] = res[role]
          /\ HeaderHasKeyword(arg[i], RoleKeywords[role][j])
          /\ \A i2 \in 1..(i - 1) : ~HeaderHasKeyword(arg[i2], RoleKeywords[role][j])
          /\ \A j2 \in 1..(j - 1), i2 \in 1..Len(arg) :
                ~HeaderHasKeyword(arg[i2], RoleKeywords[role][j2])

\* C11 witness: URL contains the later keyword url, Item Name and Name the
\* earlier keyword name; the fileName role is Item Name, the first of the two.
C11_Witness ==
  /\ pc = "done" /\ fn = "updateColumnKeys"
  /\ arg = << <<"U","R","L">>, <<"I","t","e","m"," ","N","a","m","e">>, <<"N","a","m","e">> >>
  /\ res.fileNameKey = <<"I","t","e","m"," ","N","a","m","e">>

(***************************************************************************)
(* Claims about the classifiers, checked under SpecClassify.                *)
(***************************************************************************)
\* the words of a text: its maximal runs of word characters, lowercased
WordsOf(text) ==
  LET t == toLowerCase(text)
      starts == {a \in 1..Len(t) : isWordChar(t[a]) /\ (a = 1 \/ ~isWordChar(t[a - 1]))}
      endOf(a) == CHOOSE b \in a..Len(t) :
                    /\ \A k \in a..b : isWordChar(t[k])
                    /\ (b = Len(t) \/ ~isWordChar(t[b + 1]))
  IN {SubSeq(t, a, endOf(a)) : a \in starts}

\* a phrase of several words occurs in the text between two non-word places
PhraseIn(text, phrase) ==
  LET t == toLowerCase(text)
  IN \E i \in 1..Len(t) :
       /\ matchAt(t, phrase, i)
       /\ (i = 1 \/ ~isWordChar(t[i - 1]))
       /\ (i + Len(phrase) > Len(t) \/ ~isWordChar(t[i + Len(phrase)]))

AnonymousClass(text) ==
  WordsOf(text) \cap { <<"a","n","y","o","n","e">>, <<"a","n","y","o","n","e","w","i","t","h","l","i","n","k">>, <<"a","n","o","n","y","m","o","u","s">>, <<"p","u","b","l","i","c">> } # {}
ExternalClass(text) ==
  \/ WordsOf(text) \cap { <<"g","u","e","s","t">>, <<"e","x","t","e","r","n","a","l">>, <<"n","e","w","e","x","i","s","t","i","n","g">> } # {}
  \/ PhraseIn(text, <<"n","e","w"," ","&"," ","e","x","i","s","t","i","n","g">>)
  \/ PhraseIn(text, <<"n","e","w"," ","a","n","d"," ","e","x","i","s","t","i","n","g">>)

\* C9: classifySharing gives Only Org/1 for empty text and otherwise, in this
\* priority, External (Anonymous)/4 for a whole-word anonymous-class keyword,
\* External (New & Existing)/3 for a whole-word external-class keyword,
\* Everyone/2 for the whole word everyone, else Only Org/1; text with both
\* everyone and anyone (or anonymous) is rank 4, and each level has one rank.
C9_SharingPriority ==
  (pc = "done" /\ fn = "classifySharing") =>
    /\ res = IF arg = <<>> THEN [level |-> <<"O","n","l","y"," ","O","r","g">>, rank |-> 1]
             ELSE IF AnonymousClass(arg) THEN [level |-> <<"E","x","t","e","r","n","a","l"," ","(","A","n","o","n","y","m","o","u","s",")">>, rank |-> 4]
             ELSE IF ExternalClass(arg) THEN [level |-> <<"E","x","t","e","r","n","a","l"," ","(","N","e","w"," ","&"," ","E","x","i","s","t","i","n","g",")">>, rank |-> 3]
             ELSE IF <<"e","v","e","r","y","o","n","e">> \in WordsOf(arg) THEN [level |-> <<"E","v","e","r","y","o","n","e">>, rank |-> 2]
             ELSE [level |-> <<"O","n","l","y"," ","O","r","g">>, rank |-> 1]
    /\ ( /\ <<"e","v","e","r","y","o","n","e">> \in WordsOf(arg)
         /\ ( <<"a","n","y","o","n","e">> \in WordsOf(arg) \/ <<"a","n","o","n","y","m","o","u","s">> \in WordsOf(arg) ) ) => res.rank = 4
    /\ res \in { [level |-> <<"O","n","l","y"," ","O","r","g">>, rank |-> 1], [level |-> <<"E","v","e","r","y","o","n","e">>, rank |-> 2],
                 [level |-> <<"E","x","t","e","r","n","a","l"," ","(","N","e","w"," ","&"," ","E","x","i","s","t","i","n","g",")">>, rank |-> 3],
                 [level |-> <<"E","x","t","e","r","n","a","l"," ","(","A","n","o","n","y","m","o","u","s",")">>, rank |-> 4] }

\* C9 witness: a text with the words everyone and Anyone, classified rank 4.
C9_Witness ==
  /\ pc = "done" /\ fn = "classifySharing"
  /\ arg = <<"e","v","e","r","y","o","n","e"," ","A","n","y","o","n","e">>
  /\ res = [level |-> <<"E","x","t","e","r","n","a","l"," ","(","A","n","o","n","y","m","o","u","s",")">>, rank |-> 4]

(***************************************************************************)
(* Claims about the filtered rows, checked under SpecFilter.                *)
(***************************************************************************)
\* the three predicates of the filter as the claim words them
FileTypePasses(r) == fileTypeFilter = <<"A","l","l">> \/ getFileExtension(r) = fileTypeFilter
CategoryPasses(r) ==
  categoryFilter = <<"A","l","l">> \/ getContentCategory(getFileExtension(r)) = categoryFilter
RiskEquals(r) == riskFilter = <<"A","l","l">> \/ getRiskProfile(rowText(r)) = riskFilter

\* the columns of a row, other than the permissions column, that hold the
\* whole word everyone
EveryoneColumns(r) ==
  {k \in 1..Len(r) : r[k][1] # permKey /\ <<"e","v","e","r","y","o","n","e">> \in WordsOf(r[k][2])}
EveryoneOnlyOutsidePermissions(r) ==
  /\ EveryoneColumns(r) # {}
  /\ \A k \in 1..Len(r) : r[k][1] = permKey => <<"e","v","e","r","y","o","n","e">> \notin WordsOf(r[k][2])

Occurrences(arr, x) == Cardinality({i \in 1..Len(arr) : arr[i] = x})

\* C1: the site aggregates partition the filtered rows: every filtered row is
\* in the rawRows of exactly one aggregate, as often as it is in the filtered
\* rows, and the rawRows lengths add up to the number of filtered rows.
C1_AggregatesPartitionFilteredRows ==
  LET sites == siteAggSites
      frows == filteredRows
  IN /\ sumOf(arrayOf([k \in 1..Len(sites) |-> Len(sites[k].rawRows)])) = Len(frows)
     /\ \A i \in 1..Len(frows) :
          /\ Cardinality({k \in 1..Len(sites) : Occurrences(sites[k].rawRows, frows[i]) > 0}) = 1
          /\ \E k \in 1..Len(sites) :
               Occurrences(sites[k].rawRows, frows[i]) = Occurrences(frows, frows[i])

\* C2: for each site aggregate, files is the sum of the parsed file count
\* column over its rows when the file count role resolved and the number of
\* its rows otherwise, totalKB is the sum of the parsed file size column and 0
\* without a file size role, and with no file count role the files of all
\* aggregates add up to the number of filtered rows.
C2_FilesAndTotalKBSums ==
  LET sites == siteAggSites
  IN /\ \A k \in 1..Len(sites) :
          LET members == sites[k].rawRows
          IN /\ sites[k].files =
                  IF fileCountKey # Null
                  THEN sumOf(arrayOf([i \in 1..Len(members) |->
                                        parseNumber(prop(members[i], fileCountKey))]))
                  ELSE Len(members)
             /\ sites[k].totalKB =
                  IF fileSizeKey # Null
                  THEN sumOf(arrayOf([i \in 1..Len(members) |->
                                        parseNumber(prop(members[i], fileSizeKey))]))
                  ELSE 0
     /\ fileCountKey = Null =>
          sumOf(arrayOf([k \in 1..Len(sites) |-> sites[k].files])) = Len(filteredRows)

\* C3: the text of a CSV export, parsed again by parseCSV, gives one row per
\* exported site aggregate, in order, with the same site name, files, totalKB
\* and sharing level.
C3_ExportRoundTrip ==
  download # Null =>
    LET back == parseCSV(download).data
        sites == filteredSites
    IN /\ Len(back) = Len(sites)
       /\ \A i \in 1..Len(sites) :
            /\ prop(back[i], <<"S","i","t","e","N","a","m","e">>) = sites[i].siteName
            /\ parseNumber(prop(back[i], <<"F","i","l","e","s">>)) = sites[i].files
            /\ parseNumber(prop(back[i], <<"T","o","t","a","l","K","B">>)) = sites[i].totalKB
            /\ prop(back[i], <<"S","h","a","r","i","n","g","L","e","v","e","l">>) = sites[i].sharingLevel

\* a header that looks like a site column: it ends with site, sitename or
\* site_name, or contains siteurl, weburl or web url, in any letter case
SiteLike(h) ==
  LET t == toLowerCase(h)
      ends(x) == Len(t) >= Len(x) /\ SubSeq(t, Len(t) - Len(x) + 1, Len(t)) = x
  IN \/ ends(<<"s","i","t","e">>) \/ ends(<<"s","i","t","e","n","a","m","e">>) \/ ends(<<"s","i","t","e","_","n","a","m","e">>)
     \/ \E x \in { <<"s","i","t","e","u","r","l">>, <<"w","e","b","u","r","l">>, <<"w","e","b"," ","u","r","l">> } :
          \E i \in 1..Len(t) : i + Len(x) - 1 <= Len(t) /\ SubSeq(t, i, i + Len(x) - 1) = x

\* C12: with at least one header, the site role is the first header that looks
\* like a site column, or the first header when none does, and aggregation
\* is not skipped: filtered rows always give at least one site aggregate.
C12_SiteRoleAlwaysResolved ==
  Len(headers) >= 1 =>
    /\ LET S == {i \in 1..Len(headers) : SiteLike(headers[i])}
       IN siteKey = IF S = {} THEN headers[1] ELSE headers[Min(S)]
    /\ Len(filteredRows) > 0 => Len(siteAggSites) > 0

(***************************************************************************)
(* Claims about getFileExtension, checked under SpecExtension.              *)
(***************************************************************************)
\* the text after the last c of s (all of s without a c), and the text before
\* the first character of s that is in C (all of s without one)
AfterLast(s, c) ==
  LET P == {i \in 1..Len(s) : s[i] = c}
  IN IF P = {} THEN s ELSE SubSeq(s, (CHOOSE i \in P : \A j \in P : j <= i) + 1, Len(s))
BeforeFirst(s, C) ==
  LET P == {i \in 1..Len(s) : s[i] \in C}
  IN IF P = {} THEN s ELSE SubSeq(s, 1, Min(P) - 1)

\* the values of the two roles in the row under call (empty without the role)
TypeValue == IF fileTypeKey = Null THEN <<>> ELSE arg[1][2]
NameValue == IF fileNameKey = Null THEN <<>> ELSE arg[2][2]

\* the extension before it is normalised: the fileType value when it is not
\* empty, else the text of the fileName value after its final /, then after
\* the final dot of that (nothing without a dot), cut at the first ? or #
RawExtension ==
  IF TypeValue # <<>> THEN TypeValue
  ELSE LET segment == AfterLast(NameValue, "/")
       IN IF \E i \in 1..Len(segment) : segment[i] = "."
          THEN BeforeFirst(AfterLast(segment, "."), {"?", "#"})
          ELSE <<>>

NoLeadingDot(e) == IF Len(e) > 0 /\ e[1] = "." THEN Tail(e) ELSE e
UnknownUnlessShort(e) == IF Len(e) \in 1..9 THEN e ELSE <<"u","n","k","n","o","w","n">>

RiskText == IF arg \in {Null, Undefined} THEN <<>> ELSE toLowerCase(arg)
Contains(t, phrase) ==
  \E i \in 1..Len(t) : i + Len(phrase) - 1 <= Len(t) /\ SubSeq(t, i, i + Len(phrase) - 1) = phrase

CriticalGroup ==
  <<"e","v","e","r","y","o","n","e">> \in WordsOf(RiskText) \/ Contains(RiskText, <<"e","v","e","r","y","o","n","e"," ","e","x","c","e","p","t"," ","e","x","t","e","r","n","a","l"," ","u","s","e","r","s">>)
MediumGroup ==
  \E k \in { <<"v","i","s","i","t","o","r">>, <<"e","x","c","e","l"," ","s","e","r","v","i","c","e","s"," ","v","i","e","w","e","r","s">>, <<"p","o","r","t","f","o","l","i","o"," ","v","i","e","w","e","r","s">> } : Contains(RiskText, k)
LowGroup ==
  \E k \in { <<"o","w","n","e","r">>, <<"m","e","m","b","e","r">>, <<"a","d","m","i","n","i","s","t","r","a","t","o","r">>, <<"p","r","o","j","e","c","t"," ","m","a","n","a","g","e","r">>, <<"t","e","a","m"," ","l","e","a","d">>,
             <<"r","e","s","o","u","r","c","e"," ","m","a","n","a","g","e","r">> } : Contains(RiskText, k)

\* C14: getRiskProfile gives Critical for the whole word everyone or the
\* phrase everyone except external users, else Medium for a Medium keyword,
\* else Low for a Low keyword, else Unknown; text of several groups gets the
\* label of the first of them, and every input, null included, gets a label.
C14_RiskPriority ==
  (pc = "done" /\ fn = "getRiskProfile") =>
    /\ res \in { <<"C","r","i","t","i","c","a","l">>, <<"M","e","d","i","u","m">>, <<"L","o","w">>, <<"U","n","k","n","o","w","n">> }
    /\ res = <<"C","r","i","t","i","c","a","l">> <=> CriticalGroup
    /\ res = <<"M","e","d","i","u","m">> <=> (MediumGroup /\ ~CriticalGroup)
    /\ res = <<"L","o","w">> <=> (LowGroup /\ ~MediumGroup /\ ~CriticalGroup)
    /\ res = <<"U","n","k","n","o","w","n">> <=> (~LowGroup /\ ~MediumGroup /\ ~CriticalGroup)

\* C14 witness: a text of all three groups is Critical.
C14_Witness ==
  /\ pc = "done" /\ fn = "getRiskProfile"
  /\ CriticalGroup /\ MediumGroup /\ LowGroup
  /\ res = <<"C","r","i","t","i","c","a","l">>

(***************************************************************************)
(* Claims about the summary metrics, checked under Spec.                    *)
(***************************************************************************)
PublicIn(sites) ==
  {i \in 1..Len(sites) :
     sites[i].sharingLevel = <<"E","x","t","e","r","n","a","l"," ","(","A","n","o","n","y","m","o","u","s",")">> \/ sites[i].visibleExternal}

SummaryCounts(sites, s) ==
  /\ s.totalSites = Len(sites)
  /\ s.publicSites = Cardinality(PublicIn(sites))
  /\ s.totalSites = 0 => (s.publicPct = 0 /\ s.everyonePct = 0)
  /\ (headers # <<>> /\ rows = <<>>) =>
       (sites = <<>> /\ s.totalSites = 0 /\ s.publicPct = 0)

\* C15: totalSites is the number of site aggregates, publicSites the number
\* of them that are External (Anonymous) or visibleExternal, both
\* percentages are 0 when there is no site, and a dataset of a header line
\* alone has no aggregate, totalSites 0 and publicPct 0.
C15_SummaryCounts == SummaryCounts(siteAggSites, summary)

VisibleExternalOnly(sites) ==
  \E i \in 1..Len(sites) :
    sites[i].visibleExternal /\ sites[i].sharingLevel # <<"E","x","t","e","r","n","a","l"," ","(","A","n","o","n","y","m","o","u","s",")">>

\* C15 witness: two sites, one of them public by its visibleExternal flag
\* alone, so half of the sites are public.
C15_Witness ==
  /\ summary = [summary EXCEPT !.totalSites = 2, !.publicSites = 1, !.publicPct = 5000]
  /\ VisibleExternalOnly(siteAggSites)

(***************************************************************************)
(* Claims about the stale files view, checked under SpecStale.              *)
(***************************************************************************)
\* the member rows of a site whose last-modified value is a valid date
\* strictly before the threshold of the render under call, by their positions
StaleThresholdOfCall == getStaleThreshold(stalePeriod, arg)
LastModifiedOf(r) == IF lastModKey = Null THEN <<>> ELSE prop(r, lastModKey)
IsBeforeThreshold(r) ==
  /\ LastModifiedOf(r) # <<>>
  /\ parseDate(LastModifiedOf(r)).valid
  /\ LET t == parseDate(LastModifiedOf(r)).t
         th == StaleThresholdOfCall
     IN \/ dateBefore(t, th.date)
        \/ t = th.date /\ th.ms > 0
StalePositions(site) == {i \in 1..Len(site.rawRows) : IsBeforeThreshold(site.rawRows[i])}

\* the rows of a site at a set of positions, in their order
RECURSIVE RowsAt(_, _, _)
RowsAt(siteRows, positions, i) ==
  IF i > Len(siteRows) THEN <<>>
  ELSE (IF i \in positions THEN <<siteRows[i]>> ELSE <<>>) \o RowsAt(siteRows, positions, i + 1)

RECURSIVE SizeSum(_, _)
SizeSum(siteRows, positions) ==
  IF positions = {} THEN 0
  ELSE LET i == CHOOSE k \in positions : TRUE
       IN parseNumber(prop(siteRows[i], fileSizeKey)) + SizeSum(siteRows, positions \ {i})

IsOldestOf(t, siteRows, positions) ==
  /\ \E i \in positions : parseDate(LastModifiedOf(siteRows[i])).t = t
  /\ \A i \in positions : ~dateBefore(parseDate(LastModifiedOf(siteRows[i])).t, t)

StaleEntryOf(e, site) ==
  /\ e.siteName = site.siteName
  /\ e.staleFiles = RowsAt(site.rawRows, StalePositions(site), 1)
  /\ e.staleFileCount = Cardinality(StalePositions(site))
  /\ e.staleKB = SizeSum(site.rawRows, StalePositions(site))
  /\ e.oldestModified.ms = 0
  /\ IsOldestOf(e.oldestModified.date, site.rawRows, StalePositions(site))

StaleListOf(list, sites) ==
  /\ Len(list) = Cardinality({i \in 1..Len(sites) : StalePositions(sites[i]) # {}})
  /\ \A i \in 1..Len(sites) :
       StalePositions(sites[i]) # {} => \E k \in 1..Len(list) : StaleEntryOf(list[k], sites[i])
  /\ \A k \in 1..Len(list) :
       \E i \in 1..Len(sites) : StalePositions(sites[i]) # {} /\ StaleEntryOf(list[k], sites[i])

\* C16: the stale site list has one entry for each site aggregate with a
\* member row whose last-modified value is a valid date strictly before the
\* threshold and no other entry; the entry's staleFiles are exactly those
\* rows, staleFileCount their number, staleKB the sum of their parsed sizes
\* and oldestModified the earliest of their dates.
C16_StaleListExact ==
  (pc = "done" /\ fn = "staleSitesList") => StaleListOf(res, siteAggSites)

\* C16 witness: at 2025-01-15 with period 6months, site A with a row of
\* 2024-10-15 (3 months old) and a row of 2024-05-15 (8 months old) is listed
\* with the older row alone.
C16_Witness ==
  /\ pc = "done" /\ fn = "staleSitesList"
  /\ stalePeriod = <<"6","m","o","n","t","h","s">>
  /\ arg.date = <<2025, 1, 15>>
  /\ Len(rows) = 2
  /\ prop(rows[1], lastModKey) = <<"2","0","2","4","-","1","0","-","1","5">>
  /\ prop(rows[2], lastModKey) = <<"2","0","2","4","-","0","5","-","1","5">>
  /\ Len(res) = 1
  /\ res[1].staleFiles = <<rows[2]>>
  /\ res[1].staleKB = 10

(***************************************************************************)
(* Claims about the message interface, checked under SpecMessage.           *)
(***************************************************************************)
IsLoadMessage ==
  arg.data.type = "LOAD_CSV_DATA" /\ arg.data.csvText # <<>> /\ arg.data.csvText # NotText

\* rows, headers and the seven roles are those of the text t
DatasetIsOf(t) ==
  /\ rows = parseCSV(t).data
  /\ headers = parseCSV(t).fields
  /\ siteKey = guessSiteColumn(headers)
  /\ fileCountKey = findColumns(headers, fileCountKeywords)
  /\ fileSizeKey = findColumns(headers, fileSizeKeywords)
  /\ lastModKey = findColumns(headers, lastModKeywords)
  /\ fileTypeKey = findColumns(headers, fileTypeKeywords)
  /\ fileNameKey = findColumns(headers, fileNameKeywords)
  /\ permKey = findColumns(headers, permKeywords)

PayloadOfDataset == [rowCount |-> Len(rows), headers |-> headers]

\* C17: after a LOAD_CSV_DATA message with non-empty text the dataset and the
\* roles are those of the text and exactly one AI_READINESS_DATA_CHANGE
\* message is posted, carrying the row count and the header list of the new
\* dataset; the host's listener passes exactly that payload to the
\* configured onDataChange function.
C17_LoadThenNotifyOnce ==
  (fn = "handleMessage" /\ pc # "call" /\ IsLoadMessage) =>
    /\ DatasetIsOf(arg.data.csvText)
    /\ pc = "done" =>
         posted = <<[type |-> "AI_READINESS_DATA_CHANGE", payload |-> PayloadOfDataset]>>
    /\ pc = "forwarded" =>
         /\ posted = <<>>
         /\ arg.onDataChange => res = <<PayloadOfDataset>>

\* C17 witness: a text of two data rows was loaded by message and the host
\* passed row count 2 and the three headers to onDataChange.
C17_Witness ==
  /\ fn = "handleMessage" /\ pc = "forwarded" /\ IsLoadMessage
  /\ arg.onDataChange
  /\ res = <<[rowCount |-> 2, headers |-> << <<"S","i","t","e">>, <<"N","a","m","e">>, <<"D","e","s","c">> >>]>>
  /\ Len(rows) = 2

\* the event under call makes parseCSV throw
IngestionFails == arg.data.type = "LOAD_CSV_DATA" /\ arg.data.csvText = NotText

\* C18: when the received csvText makes parsing throw, the dataset and the
\* roles keep their values, no dataset-changed notification is emitted and
\* the failure is reported to the sender, to whom the only way back is a
\* message posted to window.parent.
C18_FailureReportedDatasetKept ==
  [][(fn = "handleMessage" /\ pc = "call" /\ pc' = "done" /\ IngestionFails) =>
       /\ UNCHANGED datasetVars
       /\ \A i \in 1..Len(posted') : posted'[i].type # "AI_READINESS_DATA_CHANGE"
       /\ posted' # <<>>]_vars

(***************************************************************************)
(* Claims about sequences of loads, checked under SpecLoads.                *)
(***************************************************************************)
\* a load replaces the dataset unless it is a message with empty csvText
LoadReplaces(e) == e.kind = "file" \/ e.text # <<>>
ReplacingLoads == {i \in 1..res : LoadReplaces(arg[i])}
LastReplacingLoad == CHOOSE i \in ReplacingLoads : \A j \in ReplacingLoads : j <= i

\* C19: after any sequence of uploads and LOAD_CSV_DATA messages, rows,
\* headers and the seven roles are all those of the text of the latest load
\* that was processed, and nothing of an earlier dataset remains.
C19_DatasetOfLatestLoad ==
  (fn = "loads" /\ ReplacingLoads # {}) => DatasetIsOf(arg[LastReplacingLoad].text)

\* C19 witness: an upload and then a message with other headers and other
\* rows; the dataset is the message's.
C19_Witness ==
  /\ fn = "loads" /\ res = 2
  /\ arg[1].kind = "file" /\ arg[2].kind = "message"
  /\ parseCSV(arg[1].text).fields # headers
  /\ Len(parseCSV(arg[1].text).data) = 1
  /\ Len(rows) = 1
  /\ parseCSV(arg[1].text).data # rows
  /\ DatasetIsOf(arg[2].text)

(***************************************************************************)
(* Claims about the sharing flags of a site aggregate, checked under Spec.  *)
(***************************************************************************)
\* the field values of the member rows of a site, row after row
RECURSIVE FieldValues(_)
FieldValues(siteRows) ==
  IF Len(siteRows) = 0 THEN <<>> ELSE objValues(Head(siteRows)) \o FieldValues(Tail(siteRows))

RECURSIVE SpaceJoined(_)
SpaceJoined(values) ==
  IF Len(values) = 0 THEN <<>>
  ELSE IF Len(values) = 1 THEN values[1]
  ELSE values[1] \o <<" ">> \o SpaceJoined(Tail(values))

\* some field of some member row has one of the words as a whole word
SomeFieldHasWord(site, words) ==
  \E i \in 1..Len(FieldValues(site.rawRows)) :
    WordsOf(FieldValues(site.rawRows)[i]) \cap words # {}

SiteFlagsOverAllFields(site) ==
  /\ site.sharingLevel = classifySharing(SpaceJoined(FieldValues(site.rawRows))).level
  /\ site.sharingRank = classifySharing(SpaceJoined(FieldValues(site.rawRows))).rank
  /\ site.visibleEveryone <=> SomeFieldHasWord(site, { <<"e","v","e","r","y","o","n","e">> })
  /\ site.visibleExternal <=>
       SomeFieldHasWord(site, { <<"e","x","t","e","r","n","a","l">>, <<"g","u","e","s","t">>, <<"a","n","o","n">>, <<"a","n","y","o","n","e">> })

\* C20: the sharing level and rank of a site aggregate are those of the
\* space-joined field values of all its member rows, visibleEveryone holds
\* iff some field of some member row has the whole word everyone, and
\* visibleExternal iff some field of some member row has one of the whole
\* words external, guest, anon, anyone, whatever the letter case.
C20_FlagsOverAllRowsOfSite ==
  \A k \in 1..Len(siteAggSites) : SiteFlagsOverAllFields(siteAggSites[k])

\* C20 witness: a site of two rows whose first row has no keyword and whose
\* second row has Everyone in its last column is visibleEveryone.
C20_Witness ==
  /\ Len(siteAggSites) = 1
  /\ Len(siteAggSites[1].rawRows) = 2
  /\ WordsOf(rowText(siteAggSites[1].rawRows[1])) \cap { <<"e","v","e","r","y","o","n","e">> } = {}
  /\ <<"e","v","e","r","y","o","n","e">> \in WordsOf(objValues(siteAggSites[1].rawRows[2])[3])
  /\ siteAggSites[1].visibleEveryone
  /\ siteAggSites[1].sharingLevel = <<"E","v","e","r","y","o","n","e">>

(***************************************************************************)
(* Claims about the last-modified date of a site aggregate, checked under   *)
(* SpecStale, whose datasets carry dated, undated and unparseable rows.     *)
(***************************************************************************)
\* the dates that parse among the last-modified values of the rows
ParsedDatesOf(siteRows) ==
  {parseDate(LastModifiedOf(siteRows[i])).t :
     i \in {j \in 1..Len(siteRows) : parseDate(LastModifiedOf(siteRows[j])).valid}}

LatestParsedDate(site) ==
  IF ParsedDatesOf(site.rawRows) = {} THEN site.lastModified = Null
  ELSE /\ site.lastModified \in ParsedDatesOf(site.rawRows)
       /\ \A d \in ParsedDatesOf(site.rawRows) : ~dateBefore(site.lastModified, d)

\* C21: the lastModified of a site aggregate is the latest of the dates that
\* parse among its member rows' last-modified values, and null when none
\* parses or no header has the last-modified role.
C21_LastModifiedIsLatestParsed ==
  \A k \in 1..Len(siteAggSites) :
    /\ LatestParsedDate(siteAggSites[k])
    /\ lastModKey = Null => siteAggSites[k].lastModified = Null

\* C21 witness: rows of site A with sizes 100 and 50 and dates 2020-01-01
\* and 2023-06-01, no file-count role: one aggregate, files 2, totalKB 150,
\* lastModified 2023-06-01.
C21_Witness ==
  /\ fileCountKey = Null /\ lastModKey # Null
  /\ Len(rows) = 2
  /\ prop(rows[1], lastModKey) = <<"2","0","2","0","-","0","1","-","0","1">> /\ prop(rows[1], fileSizeKey) = <<"1","0","0">>
  /\ prop(rows[2], lastModKey) = <<"2","0","2","3","-","0","6","-","0","1">> /\ prop(rows[2], fileSizeKey) = <<"5","0">>
  /\ Len(siteAggSites) = 1
  /\ siteAggSites[1].siteName = <<"A">>
  /\ siteAggSites[1].files = 2
  /\ siteAggSites[1].totalKB = 150
  /\ siteAggSites[1].lastModified = <<2023, 6, 1>>

(***************************************************************************)
(* Claims about the site table, checked under SpecTable.                    *)
(***************************************************************************)
\* the site aggregates that pass the search and the sharing filter
TableMatches(site) ==
  /\ Contains(toLowerCase(site.siteName), trim(toLowerCase(filter.search)))
       \/ trim(toLowerCase(filter.search)) = <<>>
  /\ filter.sharing = <<"a","l","l">> \/ site.sharingLevel = filter.sharing

TableHolds(table, sites) ==
  /\ \A k \in 1..Len(sites) :
       Cardinality({i \in 1..Len(table) : table[i] = sites[k]}) =
         (IF TableMatches(sites[k]) THEN 1 ELSE 0)
  /\ \A i \in 1..Len(table) : \E k \in 1..Len(sites) : table[i] = sites[k]

\* no undated site after a dated one (ascending) or before one (descending)
UndatedAsEarliest(table) ==
  \A i, j \in 1..Len(table) :
    (i < j /\ sort.key = "last") =>
      /\ sort.dir = "asc" => ~(table[i].lastModified # Null /\ table[j].lastModified = Null)
      /\ sort.dir = "desc" => ~(table[i].lastModified = Null /\ table[j].lastModified # Null)

\* C22: the table holds exactly the site aggregates that pass the search and
\* the sharing filter, and sorted by last-modified every site without a date
\* comes before every dated site in ascending order and after them in
\* descending order, whatever the dates.
C22_UndatedSortsEarliest ==
  /\ TableHolds(filteredSites, siteAggSites)
  /\ UndatedAsEarliest(filteredSites)

(***************************************************************************)
(* Claims about the top sites chart, checked under SpecTop.                 *)
(***************************************************************************)
MetricOf(site) == IF gravityMetric = "size" THEN site.totalKB ELSE site.files
SiteNamed(sites, name) == sites[CHOOSE k \in 1..Len(sites) : sites[k].siteName = name]

RiskByFiles(files) ==
  CASE files > 10000 -> <<"C","r","i","t","i","c","a","l">>
    [] files <= 10000 /\ files > 1000 -> <<"H","i","g","h">>
    [] files <= 1000 /\ files > 500 -> <<"M","e","d","i","u","m">>
    [] files <= 500 -> <<"L","o","w">>

TopOf(top, sites) ==
  /\ Len(top) = Min({10, Len(sites)})
  /\ \A i \in 1..Len(top) :
       /\ \E k \in 1..Len(sites) : sites[k].siteName = top[i].name
       /\ top[i].files = SiteNamed(sites, top[i].name).files
       /\ top[i].risk = RiskByFiles(top[i].files)
  /\ \A i, j \in 1..Len(top) : i < j =>
       /\ top[i].name # top[j].name
       /\ MetricOf(SiteNamed(sites, top[i].name)) >= MetricOf(SiteNamed(sites, top[j].name))
  /\ \A k \in 1..Len(sites) :
       (\A i \in 1..Len(top) : top[i].name # sites[k].siteName) =>
         \A i \in 1..Len(top) : MetricOf(SiteNamed(sites, top[i].name)) >= MetricOf(sites[k])

\* C23: the chart has min(10, number of site aggregates) entries, they are
\* the aggregates of largest metric (totalKB for size, files otherwise) in
\* non-increasing order of it, and the risk of an entry is Critical above
\* 10000 files, else High above 1000, else Medium above 500, else Low.
C23_TopTenByMetric == TopOf(topHeavy, siteAggSites)

\* C23 witness: twelve sites ranked by size; ten are shown, among them sites
\* of exactly 10000, 1000 and 500 files, labelled High, Medium and Low.
C23_Witness ==
  /\ gravityMetric = "size"
  /\ Len(siteAggSites) = 12
  /\ Len(topHeavy) = 10
  /\ \E i \in 1..10 : topHeavy[i].files = 10000 /\ topHeavy[i].risk = <<"H","i","g","h">>
  /\ \E i \in 1..10 : topHeavy[i].files = 1000 /\ topHeavy[i].risk = <<"M","e","d","i","u","m">>
  /\ \E i \in 1..10 : topHeavy[i].files = 500 /\ topHeavy[i].risk = <<"L","o","w">>
  /\ \E i \in 1..9 : topHeavy[i].files < topHeavy[i + 1].files

(***************************************************************************)
(* Claims about the file type distribution, checked under SpecTypes.        *)
(***************************************************************************)
ExtensionsOf(someRows) == {getFileExtension(someRows[i]) : i \in 1..Len(someRows)}
RowsOfExtension(someRows, ext) ==
  Cardinality({i \in 1..Len(someRows) : getFileExtension(someRows[i]) = ext})

\* the entries of the distribution that stand for one extension
Slices(stats) == {i \in 1..Len(stats) : i <= 8}

RECURSIVE ValueSum(_)
ValueSum(stats) == IF Len(stats) = 0 THEN 0 ELSE Head(stats).value + ValueSum(Tail(stats))

DistributionOf(stats, frows) ==
  /\ \A i \in Slices(stats) :
       /\ stats[i].name \in ExtensionsOf(frows)
       /\ stats[i].value = RowsOfExtension(frows, stats[i].name)
       /\ \A j \in Slices(stats) : j # i => stats[j].name # stats[i].name
  /\ Cardinality(Slices(stats)) = Min({8, Cardinality(ExtensionsOf(frows))})
  /\ \A e \in ExtensionsOf(frows) :
       (\A i \in Slices(stats) : stats[i].name # e) =>
         \A i \in Slices(stats) : stats[i].value >= RowsOfExtension(frows, e)
  /\ Len(stats) > 8 => (Len(stats) = 9 /\ stats[9].name = <<"O","t","h","e","r">> /\ stats[9].value > 0)
  /\ ValueSum(stats) = Len(frows)

FilterDomainOf(types, allRows) ==
  /\ {types[i] : i \in 1..Len(types)} = ExtensionsOf(allRows)
  /\ \A i \in 1..Len(types) : i < Len(types) => codeUnitsBefore(types[i], types[i + 1])

\* C24: the distribution has one entry for each of the 8 most frequent
\* extensions of the filtered rows, holding the number of filtered rows of
\* that extension, and an entry Other for the rest when there is a rest, so
\* that its values sum to the number of filtered rows; the filter domain is
\* the sorted list of the distinct extensions of all rows.
C24_DistributionSumsToFilteredRows ==
  /\ DistributionOf(fileTypeStats, filteredRows)
  /\ FilterDomainOf(allFileTypes, rows)

(***************************************************************************)
(* Claims about the default orders, checked under SpecOrder.                *)
(***************************************************************************)
NonIncreasingInFiles(sites) ==
  \A i, j \in 1..Len(sites) : i < j => sites[i].files >= sites[j].files

NonDecreasingInOldest(list) ==
  \A i, j \in 1..Len(list) : i < j => ~instantBefore(list[j].oldestModified, list[i].oldestModified)

\* C25: the site aggregates are in non-increasing order of files and, at
\* every clock reading, the stale site views are in non-decreasing order of
\* oldestModified.
C25_DefaultOrders ==
  /\ NonIncreasingInFiles(siteAggSites)
  /\ \A now \in NowValues : NonDecreasingInOldest(staleSitesList(now))

\* a risk filter is set, the site met first in the filtered rows is not the
\* first aggregate, and two stale sites do not follow the order of the
\* aggregates
C25_Witness ==
  /\ riskFilter # <<"A","l","l">>
  /\ Len(siteAggSites) >= 2
  /\ siteAggSites[1].siteName # siteNameOf(filteredRows[1])
  /\ siteAggSites[1].files > siteAggSites[2].files
  /\ \E now \in NowValues :
       LET list == staleSitesList(now)
       IN /\ Len(list) >= 2
          /\ list[1].siteName = siteAggSites[2].siteName
          /\ list[2].siteName = siteAggSites[1].siteName
          /\ instantBefore(list[1].oldestModified, list[2].oldestModified)
          /\ C25_DefaultOrders

(***************************************************************************)
(* Claims about the visibility flags, checked under SpecSharing.            *)
(***************************************************************************)
\* C26: every site aggregate whose visibleExternal flag is set has a sharing
\* rank of at least 3.
C26_ExternalFlagImpliesExternalRank ==
  \A i \in 1..Len(siteAggSites) :
    siteAggSites[i].visibleExternal => siteAggSites[i].sharingRank >= 3

(***************************************************************************)
(* Claims about overlapping uploads, checked under SpecUpload.              *)
(***************************************************************************)
\* C27: when the second file was chosen while the read of the first was
\* pending and both reads have completed, the dataset is that of the second
\* file.
C27_LastSelectedFileWins ==
  (fn = "onFile" /\ pc = "overlapped" /\ Len(arg) = 2 /\ res = {}) => DatasetIsOf(arg[2].text)

(***************************************************************************)
(* Claims about the selections across a load, checked under SpecSelections. *)
(***************************************************************************)
selectionVars == <<fileTypeFilter, riskFilter, categoryFilter, filter, sort, stalePeriod,
                   gravityMetric, expandedSite>>

\* a file type is selected that no row of the dataset has
SelectedTypeAbsent ==
  /\ fileTypeFilter # <<"A","l","l">>
  /\ \A i \in 1..Len(rows) : getFileExtension(rows[i]) # fileTypeFilter

\* C28: a load, by upload or by message, leaves the file type, risk and
\* category filters, the table search and sharing filter, the sort, the stale
\* period, the gravity metric and the expanded site as they were; when the
\* new dataset has no row of the selected file type, no row is left after
\* filtering.
C28_LoadKeepsSelections ==
  [][(fn = "loads" /\ res' = res + 1) =>
       /\ UNCHANGED selectionVars
       /\ (SelectedTypeAbsent => filteredRows = <<>>)']_vars

\* a load has replaced the dataset by one with rows and none of the selected
\* type, the other selections being changed ones
C28_Witness ==
  /\ fn = "loads" /\ res = 1
  /\ rows # <<>>
  /\ ~DatasetIsOf(SelectedText)
  /\ SelectedTypeAbsent
  /\ fileTypeFilter = <<"p","d","f">>
  /\ riskFilter = <<"A","l","l">>
  /\ categoryFilter = <<"A","l","l">>
  /\ filter.search # <<>>
  /\ sort.key = "name"
  /\ stalePeriod = <<"2","y","e","a","r","s">>
  /\ gravityMetric = "size"
  /\ expandedSite = <<"A">>
  /\ filteredRows = <<>>

(***************************************************************************)
(* Claims about the sender of a message, checked under SpecSender.          *)
(***************************************************************************)
IsLoadEvent == arg.event.data.type = "LOAD_CSV_DATA" /\ arg.event.data.csvText # <<>>

\* after the step rows, headers and the seven roles are those of the text t
DatasetBecomesOf(t) ==
  /\ rows' = parseCSV(t).data
  /\ headers' = parseCSV(t).fields
  /\ siteKey' = guessSiteColumn(parseCSV(t).fields)
  /\ fileCountKey' = findColumns(parseCSV(t).fields, fileCountKeywords)
  /\ fileSizeKey' = findColumns(parseCSV(t).fields, fileSizeKeywords)
  /\ lastModKey' = findColumns(parseCSV(t).fields, lastModKeywords)
  /\ fileTypeKey' = findColumns(parseCSV(t).fields, fileTypeKeywords)
  /\ fileNameKey' = findColumns(parseCSV(t).fields, fileNameKeywords)
  /\ permKey' = findColumns(parseCSV(t).fields, permKeywords)

\* C29: whatever the source window and the origin of the event and whether
\* or not the dashboard is embedded, a LOAD_CSV_DATA message with non-empty
\* csvText replaces the dataset by that of the text; a message with a missing
\* or another type, or with empty csvText, leaves the dataset as it was and
\* posts nothing.
C29_SenderNeverMatters ==
  [][(fn = "handleMessageEvent" /\ pc = "call" /\ pc' = "done") =>
       IF IsLoadEvent
       THEN DatasetBecomesOf(arg.event.data.csvText)
       ELSE UNCHANGED datasetVars /\ posted' = <<>>]_vars

\* a load message from a window that is not the parent, at another origin,
\* has replaced the dataset of a dashboard that is not embedded
C29_Witness ==
  /\ fn = "handleMessageEvent" /\ pc = "done"
  /\ IsLoadEvent
  /\ arg.event.source = "another window"
  /\ arg.event.origin = "https://other.example"
  /\ ~arg.isEmbedded
  /\ DatasetIsOf(arg.event.data.csvText)
  /\ Len(rows) = 1
  /\ posted # <<>>

=============================================================================
